---- MODULE Spec2Model ----
(***************************************************************************)
(* A model of py-load-limiter (src/load_limiter/load_limiter.py): the      *)
(* sliding-window LoadLimiter and the CompositeLoadLimiter.                *)
(*                                                                         *)
(* Representation.                                                         *)
(*   - The clock (time.time()) is a number of ticks; one second is         *)
(*     TicksPerSec ticks, so sub-second instants exist.  Bucket starts are *)
(*     whole seconds, as in the source (t_start is an int).  The clock is  *)
(*     read once per operation (it does not move inside one call).         *)
(*   - Loads are reals in the source.  Here a load is an integer number of *)
(*     1/LoadUnit parts of one unit of load.  LoadUnit is a multiple of    *)
(*     100 and of every bucket count the configurations can produce, so    *)
(*     load * factor and amount / k are exact: the model is the source in  *)
(*     exact arithmetic (no floating point drift).                         *)
(*   - Factors (fragmentation, penalty_factor, ...) are given in           *)
(*     hundredths: 5 stands for 0.05, 100 for 1.0.                         *)
(*   - A bucket is <<start, load>>, the source's two element list; the     *)
(*     deque is a sequence, oldest bucket first.                           *)
(*   - retry_in is <<>> for None and <<ticks>> for a number.               *)
(*   - The monitoring counters num_calls and total_overhead only feed the  *)
(*     debug log line and are left out.                                    *)
(*   - The single-threaded specifications run every public operation as    *)
(*     one step; the threaded ones run it as the steps between which       *)
(*     another thread can run, with the threading.Lock objects as lock.    *)
(***************************************************************************)
EXTENDS Integers, Sequences, FiniteSets, TLC

VARIABLES cfg, lim, now, last, hist, lock, thr

vars == <<cfg, lim, now, last, hist, lock, thr>>

\* the part of the state that belongs to the threads: the locks and each
\* thread's position and locals
conc == <<lock, thr>>

(***************************************************************************)
(* Bounds of the model.                                                    *)
(***************************************************************************)
TicksPerSec == 2

MaxSeconds == 3

\* The limiters of the model: 1 and 2 are the children of the composite;
\* the single-limiter specifications use limiter 1 only.
Lims == {1, 2}

(***************************************************************************)
(* Arithmetic helpers.                                                     *)
(***************************************************************************)
CeilDiv(a, b) == (a + b - 1) \div b

Min(a, b) == IF a <= b THEN a ELSE b

Abs(a) == IF a < 0 THEN 0 - a ELSE a

\* the element of a one-element set
Only(S) == CHOOSE x \in S : TRUE

RECURSIVE SumLoads(_)
SumLoads(q) == IF q = <<>> THEN 0 ELSE q[1][2] + SumLoads(Tail(q))

RECURSIVE SeqMax(_)
SeqMax(s) == IF s = <<>> THEN 0
             ELSE LET m == SeqMax(Tail(s)) IN IF s[1] > m THEN s[1] ELSE m

(***************************************************************************)
(* Constructor parameters: the keyword arguments of LoadLimiter.__init__,  *)
(* maxload and period in whole units, factors in hundredths.               *)
(***************************************************************************)
Params(ml, p, fr, pf, pdf, ropf, ropdf, cap, tta) ==
    [maxload |-> ml, period |-> p, fragmentation |-> fr,
     penalty_factor |-> pf, penalty_distribution_factor |-> pdf,
     request_overhead_penalty_factor |-> ropf,
     request_overhead_penalty_distribution_factor |-> ropdf,
     max_penalty_cap_factor |-> cap, compute_tta |-> tta]

\* maxload=10, period=2 with the default fragmentation 0.05 and no penalty:
\* the limiter of the unit tests.
PlainParams == Params(10, 2, 5, 0, 20, 0, 30, 25, TRUE)

\* period=2, fragmentation=1.0: one bucket of two seconds.
CoarseParams == Params(10, 2, 100, 0, 20, 0, 30, 25, TRUE)

\* entry penalty 0.5 and overhead penalty 1.0, both spread over the whole
\* window (the limiter of the penalty scenario).
PenaltyParams == Params(10, 2, 5, 50, 100, 100, 100, 25, TRUE)

\* period=1, the default spreads (every penalty falls back on the newest
\* bucket), no TTA.
OverheadParams == Params(10, 1, 5, 50, 20, 100, 30, 25, FALSE)

AllParams == {PlainParams, CoarseParams, PenaltyParams, OverheadParams}

\* the narrow child of the composite: maxload=5, period=1, with an entry
\* penalty of int(5 * 0.5) = 2 and an overhead penalty
NarrowParams == Params(5, 1, 5, 50, 20, 100, 30, 25, TRUE)

KnownParams == AllParams \cup {NarrowParams}

\* math.ceil(period * fragmentation), at least 1
StepPeriodOf(p) ==
    LET sp == CeilDiv(p.period * p.fragmentation, 100)
    IN  IF sp <= 1 THEN 1 ELSE sp

NumMaxBucketsOf(p) == CeilDiv(p.period, StepPeriodOf(p))

RECURSIVE Factorial(_)
Factorial(n) == IF n <= 1 THEN 1 ELSE n * Factorial(n - 1)

MaxBuckets ==
    CHOOSE n \in 1..100 :
        /\ \A p \in KnownParams : NumMaxBucketsOf(p) <= n
        /\ \E p \in KnownParams : NumMaxBucketsOf(p) = n

\* parts of one unit of load
LoadUnit == 100 * Factorial(MaxBuckets)

(***************************************************************************)
(* LoadLimiter.__init__: the derived, immutable fields of a limiter.       *)
(***************************************************************************)
ValidParams(p) ==
    /\ ~(p.maxload <= 0)
    /\ ~(p.period <= 0)
    /\ ~(p.fragmentation < 1 \/ p.fragmentation > 100)
    /\ ~(p.penalty_factor < 0)
    /\ ~(p.penalty_distribution_factor < 0 \/ p.penalty_distribution_factor > 100)
    /\ ~(p.request_overhead_penalty_factor < 0)
    /\ ~(p.request_overhead_penalty_distribution_factor < 0
           \/ p.request_overhead_penalty_distribution_factor > 100)
    /\ ~(p.max_penalty_cap_factor < 0)

NewLimiter(p) ==
    LET op == (p.maxload * p.penalty_factor) \div 100    \* int(maxload * penalty_factor)
    IN  [maxload |-> p.maxload * LoadUnit,
         period |-> p.period,
         step_period |-> StepPeriodOf(p),
         num_max_buckets |-> NumMaxBucketsOf(p),
         max_cap |-> (p.maxload * LoadUnit * (100 + p.max_penalty_cap_factor)) \div 100,
         compute_tta |-> p.compute_tta,
         overstep_penalty |-> (IF op <= 0 THEN 0 ELSE op) * LoadUnit,
         penalty_distribution_factor |-> p.penalty_distribution_factor,
         request_overhead_penalty_factor |-> p.request_overhead_penalty_factor,
         request_overhead_penalty_distribution_factor |->
             p.request_overhead_penalty_distribution_factor]

\* the mutable state of a fresh limiter
EmptyState == [queue |-> <<>>, window_total |-> 0, was_over |-> FALSE]

None == <<>>

Some(v) == <<v>>

(***************************************************************************)
(* The window: _rotate_window_to_current_time and the drift corrections.   *)
(* A limiter state s is [queue, window_total, was_over]; c is the limiter  *)
(* built by NewLimiter; t is the clock in ticks.                           *)
(***************************************************************************)

\* int(int(t / step_period) * step_period), in seconds
BucketStart(c, t) == ((t \div TicksPerSec) \div c.step_period) * c.step_period

\* _correct_drifting_descending
CorrectDriftingDescending(total) == IF total < 0 THEN 0 ELSE total

\* the "remove old entries" loop: first_el[0] < t - period.  A window with
\* no bucket left ends the loop (the source would raise IndexError there; a
\* valid configuration never empties the window, since the bucket just
\* appended is younger than one period).
RECURSIVE RemoveOldEntries(_, _, _, _)
RemoveOldEntries(c, q, total, t) ==
    IF q # <<>> /\ q[1][1] * TicksPerSec < t - c.period * TicksPerSec
    THEN RemoveOldEntries(c, Tail(q), CorrectDriftingDescending(total - q[1][2]), t)
    ELSE [queue |-> q, window_total |-> total]

\* Faulty variant: a new bucket takes the place of the whole window.
RotateKeepsNewestOnly(c, s, t) ==
    LET t_start == BucketStart(c, t)
    IN  IF Len(s.queue) <= 0 \/ s.queue[Len(s.queue)][1] # t_start
        THEN [s EXCEPT !.queue = <<<<t_start, 0>>>>, !.window_total = 0]
        ELSE s

\* Faulty variant: the new bucket is appended and nothing is ever evicted.
RotateWithoutEviction(c, s, t) ==
    LET t_start == BucketStart(c, t)
    IN  IF Len(s.queue) <= 0 \/ s.queue[Len(s.queue)][1] # t_start
        THEN [s EXCEPT !.queue = Append(s.queue, <<t_start, 0>>)]
        ELSE s

RotateWindowToCurrentTime(c, s, t) ==
    LET t_start == BucketStart(c, t)
    IN  IF Len(s.queue) <= 0 \/ s.queue[Len(s.queue)][1] # t_start
        THEN LET r == RemoveOldEntries(c, Append(s.queue, <<t_start, 0>>),
                                       s.window_total, t)
             IN  [s EXCEPT !.queue = r.queue, !.window_total = r.window_total]
        ELSE s

\* _correct_driftin_ascending: 0.001 of a unit of load is LoadUnit / 1000
CorrectDriftingAscending(s) ==
    LET retot == SumLoads(s.queue)
        diff_abs == Abs(retot - s.window_total)
    IN  IF diff_abs * 1000 > LoadUnit
        THEN [s EXCEPT !.window_total = retot]
        ELSE s

(***************************************************************************)
(* _remove_from_oldest(amount): walk the buckets from the left.            *)
(* The result also carries what could not be removed (the warning branch). *)
(***************************************************************************)
RECURSIVE RemoveLoop(_, _, _, _)
RemoveLoop(q, ix, total, amount) ==
    IF ix > Len(q)
    THEN [queue |-> q, window_total |-> total, left |-> amount]
    ELSE LET el == q[ix]
             to_sub == IF el[2] > 0 THEN Min(el[2], amount) ELSE 0
             q2 == [q EXCEPT ![ix] = <<el[1], el[2] - to_sub>>]
             amount2 == amount - to_sub
         IN  IF amount2 <= 0
             THEN [queue |-> q2, window_total |-> total - to_sub, left |-> amount2]
             ELSE RemoveLoop(q2, ix + 1, total - to_sub, amount2)

\* Faulty variant: the loop forgets "self.window_total -= to_sub_from_bucket".
RemoveFromOldestKeepsTotal(s, amount) ==
    [s EXCEPT !.queue = RemoveLoop(s.queue, 1, s.window_total, amount).queue]

\* faulty variant: the amount is taken from the newest bucket
RemoveFromNewest(s, amount) ==
    [s EXCEPT !.window_total = s.window_total - amount,
              !.queue[Len(s.queue)] =
                  <<s.queue[Len(s.queue)][1], s.queue[Len(s.queue)][2] - amount>>]

RemoveFromOldest(s, amount) ==
    LET r == RemoveLoop(s.queue, 1, s.window_total, amount)
    IN  [s EXCEPT !.queue = r.queue, !.window_total = r.window_total]

\* Faulty variant: the excess over max_cap is never removed.
TrimToMaxCapNever(c, s) == s

\* the "if over_max_cap > 0: self._remove_from_oldest(over_max_cap)" idiom
TrimToMaxCap(c, s) ==
    IF s.window_total - c.max_cap > 0
    THEN RemoveFromOldest(s, s.window_total - c.max_cap)
    ELSE s

(***************************************************************************)
(* _distribute_penalty(amount, distribution_factor).                       *)
(***************************************************************************)

\* faulty variant: the new bucket always goes to the left end
DequeInsertLeft(q, i, x) == <<x>> \o q

\* collections.deque.insert(i, x)
DequeInsert(q, i, x) ==
    LET n == Len(q)
    IN  IF i >= n THEN Append(q, x)
        ELSE IF i <= 0 - n \/ i = 0 THEN <<x>> \o q
        ELSE LET pos == IF i < 0 THEN n + i ELSE i    \* index of the new element, from 0
             IN  SubSeq(q, 1, pos) \o <<x>> \o SubSeq(q, pos + 1, n)

\* int(num_max_buckets * distribution_factor)
NumBucketsToPenalty(c, distribution_factor) ==
    (c.num_max_buckets * distribution_factor) \div 100

\* faulty variant: an amount of exactly one unit for each bucket is spread
PenaltyFallsBackBelowOne(n, amount) == n <= 1 \/ amount < n * LoadUnit

\* the fallback test: num_buckets_to_penalty <= 1 or amount_for_bucket <= 1,
\* where amount_for_bucket = amount / n (0 when n <= 1) and 1 is one unit of load
PenaltyFallsBack(n, amount) == n <= 1 \/ amount <= n * LoadUnit

\* the for loop over ix, from ix up to num - 1
RECURSIVE PenaltyLoop(_, _, _, _, _, _)
PenaltyLoop(c, q, ix, num, amount_for_bucket, last_bucket_start) ==
    IF ix >= num THEN q
    ELSE LET expected == last_bucket_start - ix * c.step_period
             qlen == Len(q)
             q2 == IF qlen <= ix
                   THEN <<<<expected, 0>>>> \o q                     \* appendleft
                   ELSE IF q[qlen - ix][1] < expected
                        THEN DequeInsert(q, 0 - ix, <<expected, 0>>) \* middle bucket
                        ELSE q
             \* b is queue[-(ix + 1)] in all three cases
             pos == IF qlen <= ix THEN 1 ELSE Len(q2) - ix
             q3 == [q2 EXCEPT ![pos] = <<q2[pos][1], q2[pos][2] + amount_for_bucket>>]
         IN  PenaltyLoop(c, q3, ix + 1, num, amount_for_bucket, last_bucket_start)

\* faulty variant: "self.window_total += amount" is forgotten
DistributeKeepsTotal(c, s, amount, distribution_factor) ==
    IF Len(s.queue) < 1 \/ amount <= 0 THEN s
    ELSE LET n0 == NumBucketsToPenalty(c, distribution_factor)
             fallback == PenaltyFallsBack(n0, amount)
         IN  [s EXCEPT
                !.queue = PenaltyLoop(c, s.queue, 0, IF fallback THEN 1 ELSE n0,
                                      IF fallback THEN amount ELSE amount \div n0,
                                      s.queue[Len(s.queue)][1])]

\* the body up to and including the loop: before the trim to max_cap
DistributeUntrimmed(c, s, amount, distribution_factor) ==
    IF Len(s.queue) < 1 \/ amount <= 0 THEN s
    ELSE LET n0 == NumBucketsToPenalty(c, distribution_factor)
             fallback == PenaltyFallsBack(n0, amount)
             num == IF fallback THEN 1 ELSE n0
             amount_for_bucket == IF fallback THEN amount ELSE amount \div n0
         IN  [s EXCEPT
                !.window_total = s.window_total + amount,
                !.queue = PenaltyLoop(c, s.queue, 0, num, amount_for_bucket,
                                      s.queue[Len(s.queue)][1])]

DistributePenalty(c, s, amount, distribution_factor) ==
    IF Len(s.queue) < 1 \/ amount <= 0 THEN s
    ELSE Only({ TrimToMaxCap(c, u)
                : u \in {DistributeUntrimmed(c, s, amount, distribution_factor)} })

(***************************************************************************)
(* The submit state machine: _submit_probe, _submit_accept, _submit_reject *)
(***************************************************************************)

\* Faulty variants of the probe: total_would_be >= maxload rejects; the load is left
\* out of total_would_be; the window is left out of it.
ProbePassesStrict(c, s, load) == ~(s.window_total + load >= c.maxload)

ProbeIgnoresLoad(c, s, load) == ~(s.window_total > c.maxload)

ProbeIgnoresTotal(c, s, load) == ~(load > c.maxload)

\* the comparison of _submit_probe, on the rotated window
ProbePasses(c, s, load) == ~(s.window_total + load > c.maxload)

\* faulty variant: the load is entered in the oldest bucket
SubmitAcceptInOldest(c, s, load) ==
    [s EXCEPT !.was_over = FALSE,
              !.window_total = s.window_total + load,
              !.queue[1] = <<s.queue[1][1], s.queue[1][2] + load>>]

SubmitAccept(c, s, load) ==
    LET n == Len(s.queue)
        s1 == [s EXCEPT !.was_over = FALSE,
                        !.window_total = s.window_total + load,
                        !.queue[n] = <<s.queue[n][1], s.queue[n][2] + load>>]
    IN  Only({ TrimToMaxCap(c, u) : u \in {s1} })

\* Faulty variant: the rejected load is put on the newest bucket all the same.
RejectPenaltyCountsLoad(c, s, load) ==
    LET n == Len(s.queue)
    IN  [s EXCEPT !.was_over = TRUE,
                  !.window_total = s.window_total + load,
                  !.queue[n] = <<s.queue[n][1], s.queue[n][2] + load>>]

\* faulty variant: every reject pays the entry penalty, in a burst or not
RejectPenaltyEveryTime(c, s, load) ==
    [DistributePenalty(c, TrimToMaxCap(c, s), c.overstep_penalty,
                       c.penalty_distribution_factor)
        EXCEPT !.was_over = TRUE]

\* the penalty part of _submit_reject (up to self.was_over = True)
RejectPenalty(c, s, load) ==
    LET Penalised(s1) ==
            IF ~s1.was_over
            THEN LET Entry(s1a) ==
                         IF c.overstep_penalty > 0
                         THEN DistributePenalty(c, s1a, c.overstep_penalty,
                                                c.penalty_distribution_factor)
                         ELSE s1a
                 IN  Only({ Entry(s1a) : s1a \in {CorrectDriftingAscending(s1)} })
            ELSE IF c.request_overhead_penalty_factor > 0
                 THEN LET overhead == (load * c.request_overhead_penalty_factor) \div 100
                      IN  IF overhead > 0
                          THEN DistributePenalty(c, s1, overhead,
                                   c.request_overhead_penalty_distribution_factor)
                          ELSE s1
                 ELSE s1
        s2 == Only({ Penalised(s1) : s1 \in {TrimToMaxCap(c, s)} })
    IN  [s2 EXCEPT !.was_over = TRUE]

\* faulty variant: the walk runs from the newest bucket to the oldest
TtaWalkFromNewest(q, ix, acc, to_free) ==
    LET Reached == {j \in 1..Len(q) : SumLoads(SubSeq(q, j, Len(q))) >= to_free}
    IN  IF Reached = {} THEN 0
        ELSE CHOOSE j \in Reached : \A m \in Reached : m <= j

\* the walk "for el in self.queue": the index of the bucket at which the
\* accumulated load reaches to_free, 0 when the window is exhausted first
RECURSIVE TtaWalk(_, _, _, _)
TtaWalk(q, ix, acc, to_free) ==
    IF ix > Len(q) THEN 0
    ELSE IF acc + q[ix][2] >= to_free THEN ix
    ELSE TtaWalk(q, ix + 1, acc + q[ix][2], to_free)

\* faulty variant: the base is the load alone, whatever the window holds
ToFreeIsLoad(c, s, load) == load

ToFreeForTta(c, s, load) ==
    IF s.window_total > c.maxload
    THEN load + (s.window_total - c.maxload)
    ELSE load - (c.maxload - s.window_total)

\* Faulty variant: the oldest bucket's expiry is reported whatever the load.
TtaOfOldestBucket(c, s, load, t) ==
    IF ~c.compute_tta \/ s.queue = <<>> THEN None
    ELSE Some((s.queue[1][1] + c.period) * TicksPerSec - t)

\* faulty variant: the newest bucket's expiry is reported
TtaOfNewestBucket(c, s, load, t) ==
    IF ~c.compute_tta \/ load > c.maxload \/ s.queue = <<>> THEN None
    ELSE Some((s.queue[Len(s.queue)][1] + c.period) * TicksPerSec - t)

\* the compute_tta part of _submit_reject; the result is in ticks
TimeToAvailability(c, s, load, t) ==
    IF ~c.compute_tta THEN None
    ELSE IF load > c.maxload THEN None
    ELSE LET to_free == ToFreeForTta(c, s, load)
         IN  IF to_free <= 0 THEN Some(TicksPerSec)       \* response_tta = 1
             ELSE LET ix == TtaWalk(s.queue, 1, 0, to_free)
                  IN  IF ix = 0 THEN None
                      ELSE Some((s.queue[ix][1] + c.period) * TicksPerSec - t)

\* _submit_reject: the new state and the result's retry_in
SubmitReject(c, s, load, t) ==
    Only({ [state |-> s2, retry_in |-> TimeToAvailability(c, s2, load, t)]
           : s2 \in {RejectPenalty(c, s, load)} })

\* faulty variant: the total is measured against max_cap
LoadFactorOfCap(c, s) ==
    IF s.window_total = 0 THEN 0 ELSE (100 * s.window_total) \div c.max_cap

\* _instant_load_factor on the rotated window, in hundredths of the
\* quotient window_total / maxload
InstantLoadFactor(c, s) ==
    IF s.window_total = 0 THEN 0 ELSE (100 * s.window_total) \div c.maxload

(***************************************************************************)
(* The state machine.                                                      *)
(*   cfg[i]  the immutable fields of limiter i                             *)
(*   lim[i]  its mutable state                                             *)
(*   now     the clock, in ticks                                           *)
(*   last    what the last completed public operation did and returned     *)
(*   hist    the non-zero loads limiter 1 accepted through submit, as      *)
(*           <<time, load>>, newest last, kept for one period and one step *)
(***************************************************************************)

\* the clock's first reading: a bucket boundary of every configuration, late
\* enough for every synthesized bucket to have a non-negative start
StartSec == 2 * Factorial(MaxBuckets + 1)

StartTime == StartSec * TicksPerSec

EndTime == (StartSec + MaxSeconds) * TicksPerSec

\* the loads and amounts the callers present, in units of load
Loads == {0 * LoadUnit, 5 * LoadUnit, 10 * LoadUnit, 11 * LoadUnit}

Amounts == {3 * LoadUnit}

\* the loads presented to the composite and, directly, to its children
CompositeLoads == {0 * LoadUnit, 5 * LoadUnit}

NoOp ==
    [op |-> "none", on |-> 0, time |-> StartTime, load |-> 0, accepted |-> TRUE,
     retry_in |-> None, value |-> 0,
     pre |-> [i \in Lims |-> EmptyState],
     probe |-> [i \in Lims |-> TRUE],
     retries |-> [i \in Lims |-> None]]

\* the threads of the threaded specifications
Threads == {1, 2}

\* the lock of the composite; the lock of limiter i is lock i
Composite == 3

LockIds == Lims \cup {Composite}

\* no lock is held: lock[l] is the thread that holds l, 0 when l is free
NoLock == [l \in LockIds |-> 0]

\* a thread outside every call.  pc is its position, op / on / load the call
\* in progress, k the child the composite's loop is at, seen the limiters as
\* they were when the call got its lock, t_probe and t_commit the clock as
\* read by the rotation and by the reject branch, ok / probe / all_accepted /
\* retry_in / value the locals and the result, calls the calls completed
IdleThread ==
    [pc |-> "idle", op |-> "none", on |-> 0, load |-> 0, k |-> 0,
     seen |-> [i \in Lims |-> EmptyState], t_probe |-> 0, t_commit |-> 0,
     ok |-> TRUE, probe |-> [i \in Lims |-> TRUE], all_accepted |-> TRUE,
     retry_in |-> None, value |-> 0, calls |-> 0]

\* the entries of h still within one period and one step of time t
RECURSIVE Recent(_, _, _)
Recent(c, h, t) ==
    IF h = <<>> THEN <<>>
    ELSE IF h[1][1] < t - (c.period + c.step_period) * TicksPerSec
         THEN Recent(c, Tail(h), t)
         ELSE h

Logged(load, accepted) ==
    IF accepted /\ load > 0
    THEN Recent(cfg[1], Append(hist, <<now, load>>), now)
    ELSE Recent(cfg[1], hist, now)

\* _submit(load) on limiter i, run under the limiter's lock
SubmitLocked(i, load) ==
    LET c == cfg[i]
        pre == RotateWindowToCurrentTime(c, lim[i], now)
        ok == ProbePasses(c, pre, load)
        rej == SubmitReject(c, pre, load, now)
    IN  /\ lim' = [lim EXCEPT ![i] = IF ok THEN SubmitAccept(c, pre, load)
                                           ELSE rej.state]
        /\ last' = [NoOp EXCEPT !.op = "submit", !.on = i, !.time = now,
                                !.load = load, !.accepted = ok,
                                !.retry_in = IF ok THEN None ELSE rej.retry_in,
                                !.pre = [lim EXCEPT ![i] = pre],
                                !.probe = [NoOp.probe EXCEPT ![i] = ok],
                                !.retries = [NoOp.retries EXCEPT ![i] =
                                               IF ok THEN None ELSE rej.retry_in]]
        /\ UNCHANGED <<cfg, now>>

\* LoadLimiter.submit(load) on limiter i
SubmitCall(i, load) == SubmitLocked(i, load) /\ UNCHANGED conc

Submit(i, load) == SubmitCall(i, load) /\ UNCHANGED hist

\* the same call on limiter 1, with the accepted load put on record
SubmitTracked(load) ==
    /\ SubmitCall(1, load)
    /\ hist' = Logged(load, last'.accepted)

\* LoadLimiter.distribute(amount) on limiter i
Distribute(i, amount) ==
    LET c == cfg[i]
        pre == RotateWindowToCurrentTime(c, lim[i], now)
    IN  /\ lim' = [lim EXCEPT ![i] = DistributePenalty(c, pre, amount, 100)]
        /\ last' = [NoOp EXCEPT !.op = "distribute", !.on = i, !.time = now,
                                !.load = amount,
                                !.pre = [lim EXCEPT ![i] = pre]]
        /\ UNCHANGED <<cfg, now, hist, conc>>

\* LoadLimiter.instant_load_factor() on limiter i
ReadLoadFactor(i) ==
    LET c == cfg[i]
        pre == RotateWindowToCurrentTime(c, lim[i], now)
    IN  /\ lim' = [lim EXCEPT ![i] = pre]
        /\ last' = [NoOp EXCEPT !.op = "instant_load_factor", !.on = i,
                                !.time = now,
                                !.pre = [lim EXCEPT ![i] = pre],
                                !.value = InstantLoadFactor(c, pre)]
        /\ UNCHANGED <<cfg, now, hist, conc>>

\* the clock moves on by one tick (no operation runs)
Tick ==
    /\ now < EndTime
    /\ now' = now + 1
    /\ UNCHANGED <<cfg, lim, last, hist, conc>>

(***************************************************************************)
(* One limiter, every configuration of AllParams.                          *)
(***************************************************************************)
Init ==
    /\ \E p \in AllParams : cfg = [i \in Lims |-> NewLimiter(p)]
    /\ lim = [i \in Lims |-> EmptyState]
    /\ now = StartTime
    /\ last = NoOp
    /\ hist = <<>>
    /\ lock = NoLock
    /\ thr = [t \in Threads |-> IdleThread]

SubmitOp == \E load \in Loads : Submit(1, load)

DistributeOp == \E amount \in Amounts : Distribute(1, amount)

LoadFactorOp == ReadLoadFactor(1)

Next == SubmitOp \/ DistributeOp \/ LoadFactorOp \/ Tick

Spec == Init /\ [][Next]_vars

(***************************************************************************)
(* One limiter without penalties and without distribute(), its accepted    *)
(* loads on record.                                                        *)
(***************************************************************************)
PlainConfigs == {PlainParams, CoarseParams}

InitPlain ==
    /\ \E p \in PlainConfigs : cfg = [i \in Lims |-> NewLimiter(p)]
    /\ lim = [i \in Lims |-> EmptyState]
    /\ now = StartTime
    /\ last = NoOp
    /\ hist = <<>>
    /\ lock = NoLock
    /\ thr = [t \in Threads |-> IdleThread]

SubmitTrackedOp == \E load \in Loads : SubmitTracked(load)

NextPlain == SubmitTrackedOp \/ LoadFactorOp \/ Tick

SpecPlain == InitPlain /\ [][NextPlain]_vars

(***************************************************************************)
(* CompositeLoadLimiter over the limiters 1 and 2, in that order.          *)
(***************************************************************************)

\* the children, in the order of self.limiters
Children == <<1, 2>>

\* Faulty variant: the wait of the last failing child replaces the one kept
\* so far, whichever is longer.
ProbeStepLastWait(i, load, acc, pre, rej) ==
    LET ok == ProbePasses(cfg[i], pre, load)
        hw == acc.highest_wait_time
    IN  [st |-> [acc.st EXCEPT ![i] = IF ok THEN pre ELSE rej.state],
         pre |-> [acc.pre EXCEPT ![i] = pre],
         probe |-> [acc.probe EXCEPT ![i] = ok],
         retries |-> [acc.retries EXCEPT ![i] = IF ok THEN None ELSE rej.retry_in],
         highest_wait_time |->
             IF ~ok /\ rej.retry_in # None THEN rej.retry_in ELSE hw]

\* the record the loop's body leaves behind for child i, from the state acc
\* before it, the child's rotated window pre and what _submit_reject would
\* return on it
ProbeStep(i, load, acc, pre, rej) ==
    LET ok == ProbePasses(cfg[i], pre, load)
        hw == acc.highest_wait_time
    IN  [st |-> [acc.st EXCEPT ![i] = IF ok THEN pre ELSE rej.state],
         pre |-> [acc.pre EXCEPT ![i] = pre],
         probe |-> [acc.probe EXCEPT ![i] = ok],
         retries |-> [acc.retries EXCEPT ![i] = IF ok THEN None ELSE rej.retry_in],
         highest_wait_time |->
             IF ~ok /\ rej.retry_in # None
                   /\ (hw = None \/ rej.retry_in[1] > hw[1])
             THEN rej.retry_in ELSE hw]

\* one iteration of the first loop: _submit_probe on child i and, when it
\* fails, _submit_reject on the spot
ProbeChild(i, load, acc) ==
    Only({ Only({ ProbeStep(i, load, acc, pre, rej)
                  : rej \in {SubmitReject(cfg[i], pre, load, now)} })
           : pre \in {RotateWindowToCurrentTime(cfg[i], acc.st[i], now)} })

\* the first loop of CompositeLoadLimiter.submit, from child number k on:
\* probe the child and, when its probe fails, reject on it on the spot.
\* st: the limiters' states so far; the result adds the probes' outcomes,
\* the rotated windows and the rejections' retry_in.
RECURSIVE ProbeChildren(_, _, _)
ProbeChildren(k, load, acc) ==
    IF k > Len(Children) THEN acc
    ELSE Only({ ProbeChildren(k + 1, load, ProbeChild(Children[k], load, a))
                : a \in {acc} })

\* the second loop: _submit_accept on every child of probes_accepted
ConfirmChildren(st, probe, load) ==
    [i \in Lims |-> IF probe[i] THEN SubmitAccept(cfg[i], st[i], load) ELSE st[i]]

\* Faulty variant: one passing child is enough.
AnyAccepted(probe) == \E i \in Lims : probe[i]

\* the outcome of the probes: all_accepted
AllAccepted(probe) == \A i \in Lims : probe[i]

\* Faulty variant: every child whose probe passed is confirmed at once, whatever the
\* other children answered.
CommitEager(all_accepted, st, probe, load) == ConfirmChildren(st, probe, load)

\* "if all_accepted: confirm; else: do not confirm"
Commit(all_accepted, st, probe, load) ==
    IF all_accepted THEN ConfirmChildren(st, probe, load) ELSE st

\* CompositeLoadLimiter.submit(load)
CompositeSubmit(load) ==
    \E r \in {ProbeChildren(1, load,
                [st |-> lim, pre |-> lim, probe |-> NoOp.probe,
                 retries |-> NoOp.retries, highest_wait_time |-> None])} :
    LET all_accepted == AllAccepted(r.probe)
    IN  /\ lim' = Commit(all_accepted, r.st, r.probe, load)
        /\ last' = [NoOp EXCEPT !.op = "composite_submit", !.time = now,
                                !.load = load, !.accepted = all_accepted,
                                !.retry_in = r.highest_wait_time,
                                !.pre = r.pre, !.probe = r.probe,
                                !.retries = r.retries]
        /\ UNCHANGED <<cfg, now, hist, conc>>

\* CompositeLoadLimiter.distribute(amount): each child's distribute in turn
CompositeDistribute(amount) ==
    LET pre == [i \in Lims |-> RotateWindowToCurrentTime(cfg[i], lim[i], now)]
    IN  /\ lim' = [i \in Lims |-> DistributePenalty(cfg[i], pre[i], amount, 100)]
        /\ last' = [NoOp EXCEPT !.op = "composite_distribute", !.time = now,
                                !.load = amount, !.pre = pre]
        /\ UNCHANGED <<cfg, now, hist, conc>>

\* CompositeLoadLimiter.instant_load_factor(): the largest of the children's
CompositeLoadFactor ==
    LET pre == [i \in Lims |-> RotateWindowToCurrentTime(cfg[i], lim[i], now)]
        f == [i \in Lims |-> InstantLoadFactor(cfg[i], pre[i])]
    IN  /\ lim' = pre
        /\ last' = [NoOp EXCEPT !.op = "composite_instant_load_factor",
                                !.time = now, !.pre = pre,
                                !.value = CHOOSE v \in {f[i] : i \in Lims} :
                                              \A i \in Lims : f[i] <= v]
        /\ UNCHANGED <<cfg, now, hist, conc>>

InitComposite ==
    /\ cfg = [i \in Lims |-> IF i = 1 THEN NewLimiter(PlainParams)
                                      ELSE NewLimiter(NarrowParams)]
    /\ lim = [i \in Lims |-> EmptyState]
    /\ now = StartTime
    /\ last = NoOp
    /\ hist = <<>>
    /\ lock = NoLock
    /\ thr = [t \in Threads |-> IdleThread]

CompositeSubmitOp == \E load \in CompositeLoads : CompositeSubmit(load)

CompositeDistributeOp == \E amount \in Amounts : CompositeDistribute(amount)

ChildSubmitOp == \E i \in Lims : \E load \in CompositeLoads : Submit(i, load)

NextComposite ==
    \/ CompositeSubmitOp
    \/ CompositeLoadFactor
    \/ ChildSubmitOp
    \/ Tick

SpecComposite == InitComposite /\ [][NextComposite]_vars

(***************************************************************************)
(* Threads.  A public operation of limiter i is "with self.lock:" around   *)
(* the private methods; a thread runs it as: the call, the acquisition of  *)
(* lock i, one step per private method (the places where, without the      *)
(* lock, another thread could run in between), the release.                *)
(***************************************************************************)

\* the calls one thread makes
MaxCalls == 2

\* the loads the threads submit
ThreadLoads == {5 * LoadUnit, 10 * LoadUnit}

\* thread t's record with pc and the fields of f replaced
Moved(t, pc, f) ==
    Only({ [x \in DOMAIN thr[t] |->
              IF x = "pc" THEN p ELSE IF x \in DOMAIN g THEN g[x] ELSE thr[t][x]]
           : p \in {pc}, g \in {f} })

NoFields == [x \in {} |-> 0]

\* thread t enters submit / distribute / instant_load_factor of "on"
Call(t, op, on, load) ==
    /\ thr[t].pc = "idle"
    /\ thr[t].calls < MaxCalls
    /\ thr' = [thr EXCEPT ![t] =
                 [IdleThread EXCEPT !.pc = "acquire", !.op = op, !.on = on,
                                    !.load = load, !.calls = thr[t].calls]]
    /\ UNCHANGED <<cfg, lim, now, last, hist, lock>>

\* Faulty variant: the operation does not wait for the lock.
LockIgnored(l) == TRUE

\* threading.Lock: acquire succeeds when no thread holds the lock
LockFree(l) == lock[l] = 0

\* Faulty variant: leaving the with block keeps the lock.
UnlockNever(l) == lock

\* threading.Lock: release
Unlock(l) == [lock EXCEPT ![l] = 0]

\* the first private method an operation runs once it holds its lock
FirstStep(op, on) ==
    IF on = Composite
    THEN (IF op = "submit" THEN "cprobe"
          ELSE IF op = "distribute" THEN "cacquire" ELSE "cfactor")
    ELSE (IF op = "submit" THEN "probe"
          ELSE IF op = "distribute" THEN "rotate" ELSE "factor")

\* "with self.lock:" entered
Acquire(t) ==
    /\ thr[t].pc = "acquire"
    /\ LockFree(thr[t].on)
    /\ lock' = [lock EXCEPT ![thr[t].on] = t]
    /\ thr' = [thr EXCEPT ![t] =
                 Moved(t, FirstStep(thr[t].op, thr[t].on),
                       [seen |-> lim, k |-> 1])]
    /\ UNCHANGED <<cfg, lim, now, last, hist>>

\* "with self.lock:" left: the call returns
Release(t) ==
    /\ thr[t].pc = "release"
    /\ lock' = Unlock(thr[t].on)
    /\ thr' = [thr EXCEPT ![t] = [IdleThread EXCEPT !.calls = thr[t].calls + 1]]
    /\ UNCHANGED <<cfg, lim, now, last, hist>>

\* _submit_probe on limiter thr[t].on
StepProbe(t) ==
    /\ thr[t].pc = "probe"
    /\ \E i \in {thr[t].on} :
       \E pre \in {RotateWindowToCurrentTime(cfg[i], lim[i], now)} :
       \E ok \in {ProbePasses(cfg[i], pre, thr[t].load)} :
        /\ lim' = [lim EXCEPT ![i] = pre]
        /\ thr' = [thr EXCEPT ![t] =
                     Moved(t, IF ok THEN "accept" ELSE "reject",
                           [ok |-> ok, t_probe |-> now, t_commit |-> now])]
        /\ UNCHANGED <<cfg, now, last, hist, lock>>

\* _submit_accept
StepAccept(t) ==
    /\ thr[t].pc = "accept"
    /\ \E i \in {thr[t].on} :
        /\ lim' = [lim EXCEPT ![i] = SubmitAccept(cfg[i], lim[i], thr[t].load)]
        /\ thr' = [thr EXCEPT ![t] = Moved(t, "release", NoFields)]
        /\ UNCHANGED <<cfg, now, last, hist, lock>>

\* _submit_reject
StepReject(t) ==
    /\ thr[t].pc = "reject"
    /\ \E i \in {thr[t].on} :
       \E rej \in {SubmitReject(cfg[i], lim[i], thr[t].load, now)} :
        /\ lim' = [lim EXCEPT ![i] = rej.state]
        /\ thr' = [thr EXCEPT ![t] =
                     Moved(t, "release",
                           [retry_in |-> rej.retry_in, t_commit |-> now])]
        /\ UNCHANGED <<cfg, now, last, hist, lock>>

\* distribute: self._rotate_window_to_current_time()
StepRotate(t) ==
    /\ thr[t].pc = "rotate"
    /\ \E i \in {thr[t].on} :
        /\ lim' = [lim EXCEPT ![i] = RotateWindowToCurrentTime(cfg[i], lim[i], now)]
        /\ thr' = [thr EXCEPT ![t] = Moved(t, "penalty", [t_probe |-> now])]
        /\ UNCHANGED <<cfg, now, last, hist, lock>>

\* distribute: self._distribute_penalty(amount, 1.0)
StepPenalty(t) ==
    /\ thr[t].pc = "penalty"
    /\ \E i \in {thr[t].on} :
        /\ lim' = [lim EXCEPT ![i] =
                     DistributePenalty(cfg[i], lim[i], thr[t].load, 100)]
        /\ thr' = [thr EXCEPT ![t] = Moved(t, "release", NoFields)]
        /\ UNCHANGED <<cfg, now, last, hist, lock>>

\* _instant_load_factor
StepFactor(t) ==
    /\ thr[t].pc = "factor"
    /\ \E i \in {thr[t].on} :
       \E pre \in {RotateWindowToCurrentTime(cfg[i], lim[i], now)} :
        /\ lim' = [lim EXCEPT ![i] = pre]
        /\ thr' = [thr EXCEPT ![t] =
                     Moved(t, "release",
                           [value |-> InstantLoadFactor(cfg[i], pre),
                            t_probe |-> now])]
        /\ UNCHANGED <<cfg, now, last, hist, lock>>

\* threads on limiter 1 alone
InitThreads ==
    /\ cfg = [i \in Lims |-> NewLimiter(PenaltyParams)]
    /\ lim = [i \in Lims |-> EmptyState]
    /\ now = StartTime
    /\ last = NoOp
    /\ hist = <<>>
    /\ lock = NoLock
    /\ thr = [t \in Threads |-> IdleThread]

\* the clock moves while the threads run, for one second: across one bucket
\* boundary
ThreadTick == now < StartTime + TicksPerSec /\ Tick

CallOp ==
    \E t \in Threads :
        \/ \E load \in ThreadLoads : Call(t, "submit", 1, load)
        \/ \E amount \in Amounts : Call(t, "distribute", 1, amount)
        \/ Call(t, "instant_load_factor", 1, 0)

AcquireOp == \E t \in Threads : Acquire(t)

ReleaseOp == \E t \in Threads : Release(t)

ProbeOp == \E t \in Threads : StepProbe(t)

AcceptOp == \E t \in Threads : StepAccept(t)

RejectOp == \E t \in Threads : StepReject(t)

RotateOp == \E t \in Threads : StepRotate(t)

PenaltyOp == \E t \in Threads : StepPenalty(t)

FactorOp == \E t \in Threads : StepFactor(t)

NextThreads ==
    \/ CallOp
    \/ AcquireOp
    \/ ProbeOp
    \/ AcceptOp
    \/ RejectOp
    \/ RotateOp
    \/ PenaltyOp
    \/ FactorOp
    \/ ReleaseOp
    \/ ThreadTick

SpecThreads == InitThreads /\ [][NextThreads]_vars

(***************************************************************************)
(* Threads on a composite and its children.  CompositeLoadLimiter.submit   *)
(* and instant_load_factor hold the composite's lock and call the          *)
(* children's private methods (_submit_probe, _submit_reject,              *)
(* _submit_accept, _instant_load_factor), which take no lock; distribute   *)
(* holds the composite's lock and calls each child's public distribute,    *)
(* which takes the child's lock.  In a composite's submit, seen[i] is      *)
(* child i as the probe of this call left it.                              *)
(***************************************************************************)

\* where the first loop of submit goes after child number k
AfterChild(k, all_accepted) ==
    IF k < Len(Children) THEN [pc |-> "cprobe", k |-> k + 1]
    ELSE IF all_accepted THEN [pc |-> "caccept", k |-> 1]
    ELSE [pc |-> "release", k |-> k]

\* first loop: limiter._submit_probe(load) on child number k
CProbe(t) ==
    /\ thr[t].pc = "cprobe"
    /\ \E i \in {Children[thr[t].k]} :
       \E pre \in {RotateWindowToCurrentTime(cfg[i], lim[i], now)} :
       \E ok \in {ProbePasses(cfg[i], pre, thr[t].load)} :
       \E to \in {AfterChild(thr[t].k, thr[t].all_accepted)} :
        /\ lim' = [lim EXCEPT ![i] = pre]
        /\ thr' = [thr EXCEPT ![t] =
                     IF ok
                     THEN Moved(t, to.pc,
                                [k |-> to.k,
                                 probe |-> [thr[t].probe EXCEPT ![i] = TRUE],
                                 seen |-> [thr[t].seen EXCEPT ![i] = pre]])
                     ELSE Moved(t, "creject",
                                [probe |-> [thr[t].probe EXCEPT ![i] = FALSE],
                                 seen |-> [thr[t].seen EXCEPT ![i] = pre],
                                 all_accepted |-> FALSE])]
        /\ UNCHANGED <<cfg, now, last, hist, lock>>

\* first loop: limiter._submit_reject(load) on the child whose probe failed
CReject(t) ==
    /\ thr[t].pc = "creject"
    /\ \E i \in {Children[thr[t].k]} :
       \E rej \in {SubmitReject(cfg[i], lim[i], thr[t].load, now)} :
       \E hw \in {thr[t].retry_in} :
       \E to \in {AfterChild(thr[t].k, FALSE)} :
        /\ lim' = [lim EXCEPT ![i] = rej.state]
        /\ thr' = [thr EXCEPT ![t] =
                     Moved(t, to.pc,
                           [k |-> to.k,
                            retry_in |->
                                IF rej.retry_in # None
                                      /\ (hw = None \/ rej.retry_in[1] > hw[1])
                                THEN rej.retry_in ELSE hw])]
        /\ UNCHANGED <<cfg, now, last, hist, lock>>

\* second loop: limiter._submit_accept(load) on child number k
CAccept(t) ==
    /\ thr[t].pc = "caccept"
    /\ \E i \in {Children[thr[t].k]} :
        /\ lim' = [lim EXCEPT ![i] = SubmitAccept(cfg[i], lim[i], thr[t].load)]
        /\ thr' = [thr EXCEPT ![t] =
                     IF thr[t].k < Len(Children)
                     THEN Moved(t, "caccept", [k |-> thr[t].k + 1])
                     ELSE Moved(t, "release", NoFields)]
        /\ UNCHANGED <<cfg, now, last, hist, lock>>

\* instant_load_factor: limiter._instant_load_factor() on child number k
CFactor(t) ==
    /\ thr[t].pc = "cfactor"
    /\ \E i \in {Children[thr[t].k]} :
       \E pre \in {RotateWindowToCurrentTime(cfg[i], lim[i], now)} :
       \E f \in {InstantLoadFactor(cfg[i], pre)} :
       \E v \in {IF f > thr[t].value THEN f ELSE thr[t].value} :
        /\ lim' = [lim EXCEPT ![i] = pre]
        /\ thr' = [thr EXCEPT ![t] =
                     IF thr[t].k < Len(Children)
                     THEN Moved(t, "cfactor", [k |-> thr[t].k + 1, value |-> v])
                     ELSE Moved(t, "release", [value |-> v])]
        /\ UNCHANGED <<cfg, now, last, hist, lock>>

\* distribute: limiter.distribute(amount) on child number k waits for the
\* child's lock
CAcquire(t) ==
    /\ thr[t].pc = "cacquire"
    /\ \E i \in {Children[thr[t].k]} :
        /\ LockFree(i)
        /\ lock' = [lock EXCEPT ![i] = t]
        /\ thr' = [thr EXCEPT ![t] = Moved(t, "crotate", NoFields)]
        /\ UNCHANGED <<cfg, lim, now, last, hist>>

\* the child's distribute: self._rotate_window_to_current_time()
CRotate(t) ==
    /\ thr[t].pc = "crotate"
    /\ \E i \in {Children[thr[t].k]} :
        /\ lim' = [lim EXCEPT ![i] = RotateWindowToCurrentTime(cfg[i], lim[i], now)]
        /\ thr' = [thr EXCEPT ![t] = Moved(t, "cpenalty", NoFields)]
        /\ UNCHANGED <<cfg, now, last, hist, lock>>

\* the child's distribute: self._distribute_penalty(amount, 1.0)
CPenalty(t) ==
    /\ thr[t].pc = "cpenalty"
    /\ \E i \in {Children[thr[t].k]} :
        /\ lim' = [lim EXCEPT ![i] =
                     DistributePenalty(cfg[i], lim[i], thr[t].load, 100)]
        /\ thr' = [thr EXCEPT ![t] = Moved(t, "crelease", NoFields)]
        /\ UNCHANGED <<cfg, now, last, hist, lock>>

\* the child's distribute returns: its lock is released
CRelease(t) ==
    /\ thr[t].pc = "crelease"
    /\ \E i \in {Children[thr[t].k]} :
        /\ lock' = Unlock(i)
        /\ thr' = [thr EXCEPT ![t] =
                     IF thr[t].k < Len(Children)
                     THEN Moved(t, "cacquire", [k |-> thr[t].k + 1])
                     ELSE Moved(t, "release", NoFields)]
        /\ UNCHANGED <<cfg, lim, now, last, hist>>

\* every step thread t can take inside a call on the composite or inside
\* submit or distribute of a child
Run(t) ==
    \/ Acquire(t) \/ Release(t)
    \/ StepProbe(t) \/ StepAccept(t) \/ StepReject(t)
    \/ StepRotate(t) \/ StepPenalty(t)
    \/ CProbe(t) \/ CReject(t) \/ CAccept(t) \/ CFactor(t)
    \/ CAcquire(t) \/ CRotate(t) \/ CPenalty(t) \/ CRelease(t)

InitCompositeThreads == InitComposite

\* the calls one thread makes on the composite and its children
MaxFamilyCalls == 1

\* calls on the composite
CompositeCallOp ==
    \E t \in Threads :
      /\ thr[t].calls < MaxFamilyCalls
      /\
        \/ \E load \in CompositeLoads \ {0} : Call(t, "submit", Composite, load)
        \/ \E amount \in Amounts : Call(t, "distribute", Composite, amount)
        \/ Call(t, "instant_load_factor", Composite, 0)

\* calls on a child, past the composite
ChildCallOp ==
    \E t \in Threads : \E i \in Lims :
      /\ thr[t].calls < MaxFamilyCalls
      /\
        \/ \E load \in CompositeLoads \ {0} : Call(t, "submit", i, load)
        \/ \E amount \in Amounts : Call(t, "distribute", i, amount)

RunOp == \E t \in Threads : Run(t)

NextCompositeThreads == CompositeCallOp \/ ChildCallOp \/ RunOp

SpecCompositeThreads == InitCompositeThreads /\ [][NextCompositeThreads]_vars

\* every thread inside a call keeps running (the scheduler runs every
\* thread that can run)
SpecCompositeThreadsFair ==
    SpecCompositeThreads /\ \A t \in Threads : WF_vars(Run(t))

(***************************************************************************)
(* The wrappers: attempting(load), waiting(load, timeout) and the          *)
(* decorator all go through _submitting and then run the guarded body or   *)
(* the wrapped function.  A caller is at "submit" (about to call submit),  *)
(* at "sleep" (inside time.sleep), at "body" (_submitting has returned)    *)
(* or outside ("idle"): wake is the time its sleep ends, ran tells         *)
(* whether the body of its latest call has run, exc and exc_retry_in the   *)
(* exception that call raised.  submit takes the limiter's lock for the    *)
(* whole of _submit, so it is one step here.                               *)
(***************************************************************************)
IdleCaller ==
    [pc |-> "idle", on |-> 0, load |-> 0, wait |-> TRUE, timeout |-> None,
     start |-> 0, wake |-> 0, ran |-> FALSE, exc |-> "none",
     exc_retry_in |-> None]

\* the timeouts the callers pass, in seconds: None is timeout=None
Timeouts == {None, Some(2)}

\* the threads that call the wrappers
Callers == {1}

\* the loads the callers pass
WrapLoads == {5 * LoadUnit, 10 * LoadUnit}

\* caller t enters _submitting(load, wait, timeout) of limiter i
Submitting(t, i, load, wait, timeout) ==
    /\ thr[t].pc = "idle"
    /\ thr' = [thr EXCEPT ![t] =
                 [IdleCaller EXCEPT !.pc = "submit", !.on = i, !.load = load,
                                    !.wait = wait, !.timeout = timeout,
                                    !.start = now]]
    /\ UNCHANGED <<cfg, lim, now, last, hist, lock>>

\* faulty variant: the loop is left whatever the result
LoopLeftAlways(result) == TRUE

\* the test that leaves the loop of _submitting
LoopLeft(result) == result.accepted

\* the test that makes a rejected submit final
CannotRetry(result, wait) ==
    \/ result.retry_in = None
    \/ result.retry_in[1] <= 0
    \/ ~wait

\* math.ceil(retry_in), in seconds
WillWait(result) == CeilDiv(result.retry_in[1], TicksPerSec)

\* the test that gives up before sleeping
TimedOut(c, t, will_wait) ==
    /\ c.timeout # None
    /\ (t - c.start) + will_wait * TicksPerSec >= c.timeout[1] * TicksPerSec

\* one turn of the loop of _submitting: submit, then break, raise or
\* decide to sleep
LoopTurn(t) ==
    /\ thr[t].pc = "submit"
    /\ SubmitLocked(thr[t].on, thr[t].load)
    /\ \E c \in {thr[t]}, r \in {last'} :
         thr' = [thr EXCEPT ![t] =
            IF LoopLeft(r) THEN [c EXCEPT !.pc = "body"]
            ELSE IF CannotRetry(r, c.wait)
            THEN [c EXCEPT !.pc = "idle", !.exc = "LoadLimitExceeded",
                           !.exc_retry_in = r.retry_in]
            ELSE IF TimedOut(c, now, WillWait(r))
            THEN [c EXCEPT !.pc = "idle", !.exc = "TimeoutError"]
            ELSE [c EXCEPT !.pc = "sleep",
                           !.wake = now + WillWait(r) * TicksPerSec]]
    /\ UNCHANGED <<hist, lock>>

\* time.sleep(will_wait) returns: the clock has moved on by will_wait
\* seconds at least
Sleep(t) ==
    /\ thr[t].pc = "sleep"
    /\ now >= thr[t].wake
    /\ thr' = [thr EXCEPT ![t].pc = "submit"]
    /\ UNCHANGED <<cfg, lim, now, last, hist, lock>>

\* _submitting has returned: the guarded body / the wrapped function runs
Body(t) ==
    /\ thr[t].pc = "body"
    /\ thr' = [thr EXCEPT ![t].pc = "idle", ![t].ran = TRUE]
    /\ UNCHANGED <<cfg, lim, now, last, hist, lock>>

WrapConfigs == {PlainParams, PenaltyParams}

InitWrap ==
    /\ \E p \in WrapConfigs : cfg = [i \in Lims |-> NewLimiter(p)]
    /\ lim = [i \in Lims |-> EmptyState]
    /\ now = StartTime
    /\ last = NoOp
    /\ hist = <<>>
    /\ lock = NoLock
    /\ thr = [t \in Callers |-> IdleCaller]

\* attempting(load), or a call of a function decorated with wait=False
AttemptingOp ==
    \E t \in Callers, load \in WrapLoads : Submitting(t, 1, load, FALSE, Some(2))

\* waiting(load, timeout), or a call of a function decorated with wait=True
WaitingOp ==
    \E t \in Callers, load \in WrapLoads, timeout \in Timeouts :
        Submitting(t, 1, load, TRUE, timeout)

LoopTurnOp == \E t \in Callers : LoopTurn(t)

SleepOp == \E t \in Callers : Sleep(t)

BodyOp == \E t \in Callers : Body(t)

NextWrap == AttemptingOp \/ WaitingOp \/ LoopTurnOp \/ SleepOp \/ BodyOp \/ Tick

SpecWrap == InitWrap /\ [][NextWrap]_vars

(***************************************************************************)
(* Snapshot and restore.  The serializable state of a limiter is its       *)
(* buckets as (start, load) pairs, window_total, was_over, the derived     *)
(* parameters and the configuration factors; restore reinstates it in the  *)
(* limiter it is called on.  hist is the store: empty, or the snapshot     *)
(* last flushed followed by the limiter it was taken from.                 *)
(***************************************************************************)
Snapshot(c, s) ==
    [buckets |-> [k \in 1..Len(s.queue) |->
                    [start |-> s.queue[k][1], load |-> s.queue[k][2]]],
     window_total |-> s.window_total,
     was_over |-> s.was_over,
     num_max_buckets |-> c.num_max_buckets,
     step_period |-> c.step_period,
     period |-> c.period,
     maxload |-> c.maxload,
     max_cap |-> c.max_cap,
     overstep_penalty |-> c.overstep_penalty,
     penalty_distribution_factor |-> c.penalty_distribution_factor,
     request_overhead_penalty_factor |-> c.request_overhead_penalty_factor,
     request_overhead_penalty_distribution_factor |->
         c.request_overhead_penalty_distribution_factor]

\* faulty variant: the burst flag is not reinstated
RestoredStateNotOver(snap) ==
    [queue |-> [k \in 1..Len(snap.buckets) |->
                  <<snap.buckets[k].start, snap.buckets[k].load>>],
     window_total |-> snap.window_total,
     was_over |-> FALSE]

\* the mutable state a snapshot holds
RestoredState(snap) ==
    [queue |-> [k \in 1..Len(snap.buckets) |->
                  <<snap.buckets[k].start, snap.buckets[k].load>>],
     window_total |-> snap.window_total,
     was_over |-> snap.was_over]

\* limiter c with the parameters of the snapshot
RestoredLimiter(c, snap) ==
    [x \in DOMAIN c |-> IF x \in DOMAIN snap THEN snap[x] ELSE c[x]]

\* flush: the snapshot of limiter i goes to the store
Flush(i) ==
    /\ hist' = <<Snapshot(cfg[i], lim[i]), <<cfg[i], lim[i]>> >>
    /\ last' = [NoOp EXCEPT !.op = "flush", !.on = i, !.time = now]
    /\ UNCHANGED <<cfg, lim, now, conc>>

\* restore: limiter i is reinstated from the store
Restore(i) ==
    /\ hist # <<>>
    /\ cfg' = [cfg EXCEPT ![i] = RestoredLimiter(cfg[i], hist[1])]
    /\ lim' = [lim EXCEPT ![i] = RestoredState(hist[1])]
    /\ last' = [NoOp EXCEPT !.op = "restore", !.on = i, !.time = now]
    /\ UNCHANGED <<now, hist, conc>>

SnapshotConfigs == {PenaltyParams}

\* the loads submitted between flushes and restores
SnapshotLoads == {5 * LoadUnit, 10 * LoadUnit}

InitSnapshot ==
    /\ \E p \in SnapshotConfigs : cfg = [i \in Lims |-> NewLimiter(p)]
    /\ lim = [i \in Lims |-> EmptyState]
    /\ now = StartTime
    /\ last = NoOp
    /\ hist = <<>>
    /\ lock = NoLock
    /\ thr = [t \in Threads |-> IdleThread]

SnapshotSubmitOp == \E load \in SnapshotLoads : Submit(1, load)

FlushOp == Flush(1)

RestoreOp == Restore(1)

NextSnapshot == SnapshotSubmitOp \/ FlushOp \/ RestoreOp \/ Tick

SpecSnapshot == InitSnapshot /\ [][NextSnapshot]_vars

(***************************************************************************)
(* _distribute_penalty on its own, on windows drawn from a bounded set: up *)
(* to four buckets of one second each, the newest one at StartSec, with or *)
(* without gaps, none older than one period, their loads 0, 1 or 5 units,  *)
(* window_total their sum and within max_cap.  hist receives the window as *)
(* it is after the loop and before the trim to max_cap.                    *)
(***************************************************************************)

\* period=3: three buckets of one second
WideParams == Params(10, 3, 5, 50, 100, 100, 100, 25, TRUE)

DistributionConfigs == {PenaltyParams, WideParams}

\* the amounts and the distribution factors (in hundredths) of the calls
PenaltyAmounts == {2 * LoadUnit, 3 * LoadUnit, 6 * LoadUnit}

DistributionFactors == {0, 50, 100}

BucketLoads == {0, 1 * LoadUnit, 5 * LoadUnit}

\* the windows: strictly increasing starts that end at StartSec
Windows ==
    LET MaxWindow == 4
        Starts == (StartSec - (MaxWindow - 1))..StartSec
        Queues == UNION {[1..n -> Starts \X BucketLoads] : n \in 1..MaxWindow}
    IN  {q \in Queues :
            /\ q[Len(q)][1] = StartSec
            /\ \A k \in 2..Len(q) : q[k - 1][1] < q[k][1]}

InitDistribution ==
    /\ \E p \in DistributionConfigs : cfg = [i \in Lims |-> NewLimiter(p)]
    /\ \E q \in Windows, over \in BOOLEAN :
         /\ SumLoads(q) <= cfg[1].max_cap
         /\ q[1][1] >= StartSec - cfg[1].period
         /\ lim = [i \in Lims |-> [queue |-> q, window_total |-> SumLoads(q),
                                   was_over |-> over]]
    /\ \E amount \in PenaltyAmounts, factor \in DistributionFactors :
         last = [NoOp EXCEPT !.op = "call", !.on = 1, !.load = amount,
                             !.value = factor]
    /\ now = StartTime
    /\ hist = <<>>
    /\ lock = NoLock
    /\ thr = [t \in Threads |-> IdleThread]

\* _distribute_penalty(last.load, last.value) runs on limiter 1
DistributePenaltyCall ==
    /\ last.op = "call"
    /\ hist' = <<DistributeUntrimmed(cfg[1], lim[1], last.load, last.value)>>
    /\ lim' = [lim EXCEPT ![1] =
                 DistributePenalty(cfg[1], lim[1], last.load, last.value)]
    /\ last' = [last EXCEPT !.op = "distribute_penalty", !.pre = lim]
    /\ UNCHANGED <<cfg, now, conc>>

NextDistribution == DistributePenaltyCall

SpecDistribution == InitDistribution /\ [][NextDistribution]_vars

(***************************************************************************)
(* Two limiters built with the same arguments and driven by the same calls *)
(* at the same clock times, until one submit presents a different load to  *)
(* each: the two results then come from one and the same limiter state.    *)
(* In last, load / accepted / retry_in belong to limiter 1, value is the   *)
(* load presented to limiter 2, probe and retries hold both outcomes.      *)
(***************************************************************************)
TwinConfigs == {PlainParams, PenaltyParams, NarrowParams}

TwinLoads == {0 * LoadUnit, 3 * LoadUnit, 5 * LoadUnit, 10 * LoadUnit}

\* _submit(load) on limiter c in state s at time t: the rotated window, the
\* probe, the state left and the result's retry_in
Submitted(c, s, load, t) ==
    Only({ Only({ [pre |-> pre,
                   ok |-> ProbePasses(c, pre, load),
                   state |-> IF ProbePasses(c, pre, load)
                             THEN SubmitAccept(c, pre, load) ELSE rej.state,
                   retry_in |-> IF ProbePasses(c, pre, load)
                                THEN None ELSE rej.retry_in]
                  : rej \in {SubmitReject(c, pre, load, t)} })
           : pre \in {RotateWindowToCurrentTime(c, s, t)} })

\* submit(load1) on limiter 1 and submit(load2) on limiter 2
TwinSubmit(load1, load2) ==
    /\ lim[1] = lim[2]
    /\ \E r \in {[i \in Lims |->
                   Submitted(cfg[i], lim[i], IF i = 1 THEN load1 ELSE load2, now)]} :
         /\ lim' = [i \in Lims |-> r[i].state]
         /\ last' = [NoOp EXCEPT !.op = "submit", !.on = 1, !.time = now,
                                 !.load = load1, !.value = load2,
                                 !.accepted = r[1].ok,
                                 !.retry_in = r[1].retry_in,
                                 !.pre = [i \in Lims |-> r[i].pre],
                                 !.probe = [i \in Lims |-> r[i].ok],
                                 !.retries = [i \in Lims |-> r[i].retry_in]]
    /\ UNCHANGED <<cfg, now, hist, conc>>

InitTwin ==
    /\ \E p \in TwinConfigs : cfg = [i \in Lims |-> NewLimiter(p)]
    /\ lim = [i \in Lims |-> EmptyState]
    /\ now = StartTime
    /\ last = NoOp
    /\ hist = <<>>
    /\ lock = NoLock
    /\ thr = [t \in Threads |-> IdleThread]

TwinSubmitOp ==
    \E load1 \in TwinLoads, load2 \in TwinLoads :
        load1 <= load2 /\ TwinSubmit(load1, load2)

TwinTick == lim[1] = lim[2] /\ Tick

NextTwin == TwinSubmitOp \/ TwinTick

SpecTwin == InitTwin /\ [][NextTwin]_vars

(***************************************************************************)
(* A caller that retries: after a rejected submit that came with a         *)
(* retry_in, the same load is submitted again to the same limiter, at the  *)
(* same clock time or later, nothing else having called the limiter in     *)
(* between (last still is the rejection).  hist holds the rejection the    *)
(* resubmission follows.                                                   *)
(***************************************************************************)
RetryConfigs == {PlainParams, PenaltyParams, NarrowParams}

RetryLoads == {0 * LoadUnit, 5 * LoadUnit, 10 * LoadUnit}

\* submit(load) by any caller: the retry, if one was pending, is off
FreshSubmit(i, load) == SubmitCall(i, load) /\ hist' = <<>>

\* submit(last.load) again on the limiter that has just rejected it
Resubmit ==
    /\ last.op \in {"submit", "resubmit"}
    /\ ~last.accepted
    /\ last.retry_in # None
    /\ \E i \in {last.on} :
       \E r \in {Submitted(cfg[i], lim[i], last.load, now)} :
         /\ lim' = [lim EXCEPT ![i] = r.state]
         /\ last' = [NoOp EXCEPT !.op = "resubmit", !.on = i, !.time = now,
                                 !.load = last.load, !.accepted = r.ok,
                                 !.retry_in = r.retry_in,
                                 !.pre = [lim EXCEPT ![i] = r.pre],
                                 !.probe = [NoOp.probe EXCEPT ![i] = r.ok],
                                 !.retries = [NoOp.retries EXCEPT ![i] = r.retry_in]]
    /\ hist' = <<last>>
    /\ UNCHANGED <<cfg, now, conc>>

InitRetry ==
    /\ \E p \in RetryConfigs : cfg = [i \in Lims |-> NewLimiter(p)]
    /\ lim = [i \in Lims |-> EmptyState]
    /\ now = StartTime
    /\ last = NoOp
    /\ hist = <<>>
    /\ lock = NoLock
    /\ thr = [t \in Threads |-> IdleThread]

FreshSubmitOp == \E load \in RetryLoads : FreshSubmit(1, load)

ResubmitOp == Resubmit

NextRetry == FreshSubmitOp \/ ResubmitOp \/ Tick

SpecRetry == InitRetry /\ [][NextRetry]_vars

(***************************************************************************)
(* The constructor on arbitrary arguments.  The arguments are numbers in   *)
(* thousandths (period 500 is half a second, fragmentation 10 is 0.01), so *)
(* that values between the integers and below 0.01 can be passed.  cfg is  *)
(* the sequence of limiters produced: empty until the constructor returns. *)
(***************************************************************************)
RawArgs ==
    [maxload : {-1000, 0, 10000},
     period : {-1000, 0, 500, 1000, 2000},
     fragmentation : {5, 10, 1000, 1001},
     penalty_factor : {-1, 0, 500},
     penalty_distribution_factor : {-1, 0, 1000, 1001},
     request_overhead_penalty_factor : {-1, 0},
     request_overhead_penalty_distribution_factor : {-1, 1000, 1001},
     max_penalty_cap_factor : {-1, 0, 250}]

\* the checks at the head of __init__: TRUE when one of them raises ValueError
RaisesValueError(a) ==
    \/ a.maxload <= 0
    \/ a.period <= 0
    \/ a.fragmentation < 10 \/ a.fragmentation > 1000
    \/ a.penalty_factor < 0
    \/ a.penalty_distribution_factor < 0 \/ a.penalty_distribution_factor > 1000
    \/ a.request_overhead_penalty_factor < 0
    \/ a.request_overhead_penalty_distribution_factor < 0
    \/ a.request_overhead_penalty_distribution_factor > 1000
    \/ a.max_penalty_cap_factor < 0

\* the fields __init__ sets when no check raises: step_period and
\* num_max_buckets in whole seconds and buckets, overstep_penalty in whole
\* units of load, the others in thousandths
Constructed(a) ==
    LET op == (a.maxload * a.penalty_factor) \div 1000000
        sp == CeilDiv(a.period * a.fragmentation, 1000000)
        step_period == IF sp <= 1 THEN 1 ELSE sp
    IN  [maxload |-> a.maxload,
         period |-> a.period,
         step_period |-> step_period,
         num_max_buckets |-> CeilDiv(a.period, 1000 * step_period),
         max_cap |-> (a.maxload * (1000 + a.max_penalty_cap_factor)) \div 1000,
         overstep_penalty |-> IF op <= 0 THEN 0 ELSE op,
         penalty_distribution_factor |-> a.penalty_distribution_factor,
         request_overhead_penalty_factor |-> a.request_overhead_penalty_factor,
         request_overhead_penalty_distribution_factor |->
             a.request_overhead_penalty_distribution_factor,
         queue |-> <<>>, window_total |-> 0, was_over |-> FALSE]

\* LoadLimiter(**a) is about to be called
InitConstruct ==
    /\ \E a \in RawArgs : last = [op |-> "call", args |-> a]
    /\ cfg = <<>>
    /\ lim = [i \in Lims |-> EmptyState]
    /\ now = StartTime
    /\ hist = <<>>
    /\ lock = NoLock
    /\ thr = [t \in Threads |-> IdleThread]

\* LoadLimiter.__init__ runs: it raises ValueError or returns the limiter
Construct ==
    /\ last.op = "call"
    /\ IF RaisesValueError(last.args)
       THEN /\ last' = [op |-> "raised", args |-> last.args]
            /\ cfg' = cfg
       ELSE /\ last' = [op |-> "returned", args |-> last.args]
            /\ cfg' = <<Constructed(last.args)>>
    /\ UNCHANGED <<lim, now, hist, conc>>

NextConstruct == Construct

SpecConstruct == InitConstruct /\ [][NextConstruct]_vars

(***************************************************************************)
(* Properties.  last describes the last completed operation; the clock     *)
(* moving on changes neither last nor the limiters, so a statement about   *)
(* "the state after the operation" is a state predicate.                   *)
(***************************************************************************)

\* the limiter the last operation ran on had no penalty configured
NoPenalties(c) == c.overstep_penalty = 0 /\ c.request_overhead_penalty_factor = 0

LastSubmit == last.op = "submit"

LastRejected == last.op = "submit" /\ ~last.accepted

NewestLoad(s) == s.queue[Len(s.queue)][2]

\* the loads of the buckets but the newest
OlderBuckets(s) == SubSeq(s.queue, 1, Len(s.queue) - 1)

\* the accepted loads on record since time t (inclusive)
RECURSIVE AcceptedSince(_, _)
AcceptedSince(h, t) ==
    IF h = <<>> THEN 0
    ELSE (IF h[1][1] >= t THEN h[1][2] ELSE 0) + AcceptedSince(Tail(h), t)

\* C1: submit(load) is accepted if and only if, on the window advanced to
\* the current time, window_total + load <= maxload (equality accepts).
C1_AcceptedIffFits ==
    LastSubmit =>
        (last.accepted <=>
            last.pre[last.on].window_total + last.load <= cfg[last.on].maxload)

\* an accepted submit that fills a window already in use exactly to maxload
C1_Witness ==
    /\ LastSubmit /\ last.accepted /\ last.load > 0
    /\ last.pre[last.on].window_total > 0
    /\ last.pre[last.on].window_total + last.load = cfg[last.on].maxload

\* C2 (as claimed): with no penalty and no distribute(), the loads accepted
\* at times in (now - period, now] never add up to more than maxload.
C2_RollingCeiling ==
    AcceptedSince(hist, now - cfg[1].period * TicksPerSec + 1) <= cfg[1].maxload

\* C2 (amended): with no penalty and no distribute(), the loads accepted at
\* times in [now - period + step_period, now] never add up to more than
\* maxload.
C2_BucketedCeiling ==
    AcceptedSince(hist, now - (cfg[1].period - cfg[1].step_period) * TicksPerSec)
        <= cfg[1].maxload

\* the interval [now - period + step_period, now] holds exactly maxload in
\* several accepted submits, and an older accepted load is on record too
C2_Witness ==
    /\ Len(hist) >= 3
    /\ hist[1][1] < now - (cfg[1].period - cfg[1].step_period) * TicksPerSec
    /\ hist[Len(hist)][1] = now
    /\ AcceptedSince(hist, now - (cfg[1].period - cfg[1].step_period) * TicksPerSec)
          = cfg[1].maxload

\* C3: on a limiter with no penalty configured a rejected submit leaves
\* every bucket and window_total as the advance left them.
C3_RejectionNeutral ==
    (LastRejected /\ NoPenalties(cfg[last.on])) =>
        /\ lim[last.on].queue = last.pre[last.on].queue
        /\ lim[last.on].window_total = last.pre[last.on].window_total

\* a positive load rejected on a window in use, no penalty configured
C3_Witness ==
    /\ LastRejected /\ NoPenalties(cfg[last.on])
    /\ last.load > 0 /\ last.load <= cfg[last.on].maxload
    /\ lim[last.on].window_total > 0

\* C4: a rejected composite submit leaves every child whose probe passed as
\* its advance left it (buckets, window_total, was_over), and puts the load
\* on no child: a child whose probe failed ends in the state of its own
\* reject branch, unchanged when it has no penalty; an accepted composite
\* submit adds exactly the load to every child's newest bucket and
\* window_total, and changes no other bucket.
C4_CompositeAtomicity ==
    last.op = "composite_submit" =>
        \A i \in Lims :
            IF last.accepted
            THEN /\ lim[i].window_total = last.pre[i].window_total + last.load
                 /\ NewestLoad(lim[i]) = NewestLoad(last.pre[i]) + last.load
                 /\ OlderBuckets(lim[i]) = OlderBuckets(last.pre[i])
            ELSE /\ last.probe[i] => lim[i] = last.pre[i]
                 /\ ~last.probe[i] =>
                        lim[i] = RejectPenalty(cfg[i], last.pre[i], last.load)
                 /\ (~last.probe[i] /\ NoPenalties(cfg[i])) =>
                        /\ lim[i].queue = last.pre[i].queue
                        /\ lim[i].window_total = last.pre[i].window_total

\* the composite rejects a positive load that its first child, with loads
\* in its window, would have admitted, and the second child draws a penalty
C4_Witness ==
    /\ last.op = "composite_submit" /\ ~last.accepted /\ last.load > 0
    /\ last.probe[1] /\ ~last.probe[2]
    /\ last.pre[1].window_total > 0
    /\ lim[2].window_total > last.pre[2].window_total

\* C5: the composite accepts if and only if every child's probe passes on
\* that child's advanced window.
C5_CompositeAcceptsIffAll ==
    last.op = "composite_submit" =>
        (last.accepted <=>
            \A i \in Lims :
                last.pre[i].window_total + last.load <= cfg[i].maxload)

\* the first child alone fails its probe and the composite rejects
C5_Witness ==
    /\ last.op = "composite_submit" /\ ~last.accepted
    /\ ~last.probe[1] /\ last.probe[2]
    /\ last.pre[2].window_total + last.load <= cfg[2].maxload

\* C6 (as claimed): when the accepted loads on record were all accepted one
\* period before the last operation and add up to maxload, a submit of a
\* load <= maxload is accepted and window_total is then that load, and
\* instant_load_factor() returns 0.
C6_WindowSlide ==
    LET t0 == last.time - cfg[1].period * TicksPerSec
        \* the record before the last operation added to it
        prior == IF LastSubmit /\ last.accepted /\ last.load > 0
                 THEN SubSeq(hist, 1, Len(hist) - 1) ELSE hist
    IN  (/\ last.on = 1
         /\ prior # <<>>
         /\ \A k \in 1..Len(prior) : prior[k][1] = t0
         /\ AcceptedSince(prior, t0) = cfg[1].maxload)
        => /\ (LastSubmit /\ last.load <= cfg[1].maxload) =>
                  (last.accepted /\ lim[1].window_total = last.load)
           /\ last.op = "instant_load_factor" => last.value = 0

\* C7: window_total <= max_cap after every completed operation.
C7_MaxCapClamp == \A i \in Lims : lim[i].window_total <= cfg[i].max_cap

\* a reject whose penalty would have passed max_cap and was trimmed to it
C7_Witness ==
    /\ LastRejected
    /\ ~last.pre[last.on].was_over
    /\ last.pre[last.on].window_total + cfg[last.on].overstep_penalty
          > cfg[last.on].max_cap
    /\ lim[last.on].window_total = cfg[last.on].max_cap

\* C8: window_total >= 0 and window_total is the sum of the buckets' loads.
C8_TotalIsSum ==
    \A i \in Lims :
        /\ lim[i].window_total >= 0
        /\ lim[i].window_total = SumLoads(lim[i].queue)

\* a distribute() that synthesized a bucket and was trimmed to max_cap
C8_Witness ==
    /\ last.op = "distribute"
    /\ Len(lim[1].queue) > Len(last.pre[1].queue)
    /\ last.pre[1].window_total + last.load > cfg[1].max_cap
    /\ lim[1].window_total = cfg[1].max_cap

\* C9 (as claimed): a rejected submit with load <= maxload and compute_tta
\* returns 0 < retry_in <= period.
C9_RetryInRange ==
    (LastRejected /\ last.load <= cfg[last.on].maxload
       /\ cfg[last.on].compute_tta /\ last.retry_in # None)
    => /\ 0 < last.retry_in[1]
       /\ last.retry_in[1] <= cfg[last.on].period * TicksPerSec

\* C10 (as claimed): submit(0) is accepted in every reachable state and
\* leaves buckets and window_total as the advance left them.
C10_ZeroAlwaysAccepted ==
    (LastSubmit /\ last.load = 0) =>
        /\ last.accepted
        /\ lim[last.on].queue = last.pre[last.on].queue
        /\ lim[last.on].window_total = last.pre[last.on].window_total

\* C10 (amended): submit(0) is accepted if and only if window_total <=
\* maxload on the advanced window, and an accepted submit(0) leaves buckets
\* and window_total as the advance left them.
C10_ZeroAcceptedUnlessOver ==
    (LastSubmit /\ last.load = 0) =>
        /\ last.accepted <=>
              last.pre[last.on].window_total <= cfg[last.on].maxload
        /\ last.accepted =>
              /\ lim[last.on].queue = last.pre[last.on].queue
              /\ lim[last.on].window_total = last.pre[last.on].window_total

\* submit(0) rejected on a window that a penalty or distribute() raised
\* above maxload
C10_Witness ==
    /\ LastSubmit /\ last.load = 0 /\ ~last.accepted
    /\ last.pre[last.on].window_total > cfg[last.on].maxload

\* C11: submit(load) with load > maxload is rejected in every reachable
\* state and its retry_in is None, with and without compute_tta.
C11_OversizeRejected ==
    (LastSubmit /\ last.load > cfg[last.on].maxload) =>
        /\ ~last.accepted
        /\ last.retry_in = None

\* an oversize load rejected by a limiter that computes TTA, on a window
\* holding loads a smaller request would have had to wait for
C11_Witness ==
    /\ LastSubmit /\ last.load > cfg[last.on].maxload
    /\ cfg[last.on].compute_tta
    /\ last.pre[last.on].window_total > 0
    /\ ~last.accepted /\ last.retry_in = None

\* what the call of thread t leaves behind when it runs alone on the limiter
\* as it was when t got the lock, with t's readings of the clock
SerialOutcome(t) ==
    LET i == thr[t].on
        c == cfg[i]
        pre == RotateWindowToCurrentTime(c, thr[t].seen[i], thr[t].t_probe)
        ok == ProbePasses(c, pre, thr[t].load)
        rej == SubmitReject(c, pre, thr[t].load, thr[t].t_commit)
    IN  IF thr[t].op = "submit"
        THEN [state |-> IF ok THEN SubmitAccept(c, pre, thr[t].load) ELSE rej.state,
              ok |-> ok,
              retry_in |-> IF ok THEN None ELSE rej.retry_in,
              value |-> 0]
        ELSE IF thr[t].op = "distribute"
        THEN [state |-> DistributePenalty(c, pre, thr[t].load, 100),
              ok |-> TRUE, retry_in |-> None, value |-> 0]
        ELSE [state |-> pre, ok |-> TRUE, retry_in |-> None,
              value |-> InstantLoadFactor(c, pre)]

\* thread t is inside "with self.lock:" of lock l
Inside(t, l) == thr[t].on = l /\ thr[t].pc \notin {"idle", "acquire"}

\* C12: submit, instant_load_factor and distribute of one limiter exclude
\* each other: at most one thread is inside the lock; a call that got the
\* lock finds the limiter as the previous holder left it and, when it is
\* done, the limiter and the call's result are those of running the call
\* alone on that state (the calls one at a time, in the order the lock was
\* acquired); an accepted submit never leaves window_total above maxload.
C12_MutualExclusion ==
    /\ \A t, u \in Threads : (t # u /\ Inside(t, 1)) => ~Inside(u, 1)
    /\ \A t \in Threads :
         /\ (thr[t].on = 1 /\ thr[t].pc \in {"probe", "rotate", "factor"}) =>
                lim[1] = thr[t].seen[1]
         /\ (thr[t].on = 1 /\ thr[t].pc = "release") =>
                /\ lim[1] = SerialOutcome(t).state
                /\ thr[t].ok = SerialOutcome(t).ok
                /\ thr[t].retry_in = SerialOutcome(t).retry_in
                /\ thr[t].value = SerialOutcome(t).value
                /\ (thr[t].op = "submit" /\ thr[t].ok) =>
                       lim[1].window_total <= cfg[1].maxload

\* two submits in flight at one instant that the window could each admit but
\* not both: the first is accepted and done, the second waits for the lock
C12_Witness ==
    \E t, u \in Threads :
        /\ t # u
        /\ thr[t].op = "submit" /\ thr[t].pc = "release" /\ thr[t].ok
        /\ thr[u].op = "submit" /\ thr[u].pc = "acquire"
        /\ thr[t].seen[1].window_total + thr[u].load <= cfg[1].maxload
        /\ lim[1].window_total + thr[u].load > cfg[1].maxload

\* C13 (as claimed): while a composite's submit is between its probe of a
\* child and its commit on it, the child is as the probe left it, and the
\* commit does not take the child's window_total above its maxload.
C13_ChildHeldFromProbeToCommit ==
    \A t \in Threads :
        (thr[t].on = Composite /\ thr[t].pc = "caccept") =>
            LET i == Children[thr[t].k]
            IN  /\ lim[i] = thr[t].seen[i]
                /\ lim[i].window_total + thr[t].load <= cfg[i].maxload

\* C14: threads that use one composite together with direct calls on its
\* children never deadlock: every call that has started returns.
C14_NoDeadlock ==
    \A t \in Threads : (thr[t].pc # "idle") ~> (thr[t].pc = "idle")

\* the composite's distribute holds the composite's lock and waits for the
\* lock of a child that a direct call on the child holds
C14_Witness ==
    \E t, u \in Threads :
        /\ t # u
        /\ thr[t].on = Composite /\ thr[t].pc = "cacquire"
        /\ lock[Composite] = t
        /\ lock[Children[thr[t].k]] = u
        /\ thr[u].on = Children[thr[t].k]

\* the constraints on the configuration, as the claim lists them
C15_ConstraintViolated(a) ==
    \/ a.maxload <= 0
    \/ a.period < 1000
    \/ a.fragmentation < 10 \/ a.fragmentation > 1000
    \/ a.penalty_factor < 0
    \/ a.penalty_distribution_factor < 0 \/ a.penalty_distribution_factor > 1000
    \/ a.request_overhead_penalty_factor < 0
    \/ a.request_overhead_penalty_distribution_factor < 0
    \/ a.request_overhead_penalty_distribution_factor > 1000
    \/ a.max_penalty_cap_factor < 0

\* C15 (as claimed): the constructor raises and produces no limiter whenever
\* a constraint is violated (maxload <= 0, period < 1, fragmentation outside
\* [0.01, 1.0], a negative factor, a distribution factor outside [0, 1]),
\* and returns a limiter for every configuration that meets them all.
C15_ConstructorValidates ==
    last.op \in {"raised", "returned"} =>
        IF C15_ConstraintViolated(last.args)
        THEN last.op = "raised" /\ cfg = <<>>
        ELSE last.op = "returned" /\ Len(cfg) = 1

\* C16: in the non-waiting forms, once _submitting has made its submit, a
\* rejected submit has raised LoadLimitExceeded carrying that submit's
\* retry_in and the body has not run; the body runs (or is about to run)
\* only when that submit was accepted, and then nothing is raised.
C16_NonWaitingRaises ==
    \A t \in Callers :
        (~thr[t].wait /\ thr[t].on # 0 /\ thr[t].pc \in {"body", "idle"}) =>
            /\ last.op = "submit" /\ last.on = thr[t].on
            /\ last.load = thr[t].load /\ last.time >= thr[t].start
            /\ IF last.accepted
               THEN /\ thr[t].exc = "none"
                    /\ thr[t].ran <=> thr[t].pc = "idle"
               ELSE /\ thr[t].pc = "idle"
                    /\ thr[t].exc = "LoadLimitExceeded"
                    /\ thr[t].exc_retry_in = last.retry_in
                    /\ ~thr[t].ran

\* attempting() has raised LoadLimitExceeded with a retry_in, its body not run
C16_Witness ==
    \E t \in Callers :
        /\ ~thr[t].wait /\ thr[t].pc = "idle"
        /\ thr[t].exc = "LoadLimitExceeded" /\ thr[t].exc_retry_in # None
        /\ ~thr[t].ran /\ ~last.accepted

\* C17: instant_load_factor() leaves the window advanced to the time of the
\* call (its newest bucket is the bucket of that time) and returns
\* window_total / maxload of that window (here in whole hundredths), 0 when
\* the total is 0; at a clock that has never moved, on a limiter that
\* started empty, it returns S / maxload for the accepted loads' sum S.
C17_LoadFactor ==
    last.op = "instant_load_factor" =>
        LET c == cfg[last.on]
            s == lim[last.on]
            W == s.window_total
        IN  /\ s = last.pre[last.on]
            /\ s.queue # <<>>
            /\ s.queue[Len(s.queue)][1] = BucketStart(c, last.time)
            /\ W = 0 => last.value = 0
            /\ last.value * c.maxload <= 100 * W
            /\ 100 * W < (last.value + 1) * c.maxload
            /\ last.time = StartTime =>
                 last.value * c.maxload = 100 * AcceptedSince(hist, StartTime)

\* 5 and 5 were accepted at the frozen start time, and the factor read is 1.0
C17_Witness ==
    /\ last.op = "instant_load_factor"
    /\ last.time = StartTime
    /\ Len(hist) = 2
    /\ last.value = 100

C19_NoStaleBucket ==
    last.op \in {"submit", "instant_load_factor", "distribute"} =>
        \A k \in 1..Len(lim[last.on].queue) :
            lim[last.on].queue[k][1] * TicksPerSec
                >= last.time - cfg[last.on].period * TicksPerSec

\* C20 (as claimed): after every completed operation the window holds at
\* most num_max_buckets buckets, synthesized buckets included.
C20_AtMostNumMaxBuckets ==
    last.op \in {"submit", "instant_load_factor", "distribute"} =>
        Len(lim[last.on].queue) <= cfg[last.on].num_max_buckets

\* C21: in every reachable state the bucket starts of every window are
\* strictly increasing from oldest to newest and each is a multiple of
\* step_period, also after a penalty distribution has synthesized buckets.
C21_StartsOrdered ==
    \A i \in Lims :
        \A k \in 1..Len(lim[i].queue) :
            /\ lim[i].queue[k][1] % cfg[i].step_period = 0
            /\ k > 1 => lim[i].queue[k - 1][1] < lim[i].queue[k][1]

\* a distribution has just synthesized a bucket between two older ones
C21_Witness ==
    /\ last.op \in {"submit", "distribute"}
    /\ Len(last.pre[last.on].queue) = 2
    /\ Len(lim[last.on].queue) = 3
    /\ lim[last.on].queue[1][1] = last.pre[last.on].queue[1][1]
    /\ lim[last.on].queue[3][1] = last.pre[last.on].queue[2][1]

\* C22: a rejected submit adds to the window the entry penalty
\* (overstep_penalty) when was_over was false and the overhead penalty
\* load * request_overhead_penalty_factor when was_over was true, never both
\* (window_total grows by that one amount, up to max_cap); was_over is true
\* after a reject, false after an accept, and no other operation changes it,
\* so it is the outcome of the limiter's previous submit.
C22_BurstEdge ==
    last.op \in {"submit", "instant_load_factor", "distribute"} =>
        LET c == cfg[last.on]
            pre == last.pre[last.on]
            post == lim[last.on]
            overhead == (last.load * c.request_overhead_penalty_factor) \div 100
            penalty == IF pre.was_over THEN overhead ELSE c.overstep_penalty
        IN  IF last.op # "submit" THEN post.was_over = pre.was_over
            ELSE IF last.accepted THEN ~post.was_over
            ELSE /\ post.was_over
                 /\ post.window_total = Min(pre.window_total + penalty, c.max_cap)

\* a reject inside a burst: the overhead penalty, different from the entry
\* penalty, is in the window in full
C22_Witness ==
    /\ LastRejected
    /\ last.pre[last.on].was_over
    /\ last.load # cfg[last.on].overstep_penalty
    /\ cfg[last.on].request_overhead_penalty_factor = 100
    /\ lim[last.on].window_total = last.pre[last.on].window_total + last.load
    /\ lim[last.on].window_total < cfg[last.on].max_cap

\* C23: when a reject is the first of a burst and the entry penalty P is
\* positive, window_total after the submit is min(W + P, max_cap), W being
\* window_total after the advance; the bucket loads add up to the same.
C23_EntryPenaltyTotal ==
    (LastRejected /\ ~last.pre[last.on].was_over
                  /\ cfg[last.on].overstep_penalty > 0) =>
        LET c == cfg[last.on]
            W == last.pre[last.on].window_total
            expected == IF W + c.overstep_penalty <= c.max_cap
                        THEN W + c.overstep_penalty ELSE c.max_cap
        IN  /\ lim[last.on].window_total = expected
            /\ SumLoads(lim[last.on].queue) = expected

\* a first reject on a window in use whose entry penalty fits under max_cap
C23_Witness ==
    /\ LastRejected /\ ~last.pre[last.on].was_over
    /\ cfg[last.on].overstep_penalty > 0
    /\ last.pre[last.on].window_total > 0
    /\ lim[last.on].window_total
          = last.pre[last.on].window_total + cfg[last.on].overstep_penalty
    /\ lim[last.on].window_total < cfg[last.on].max_cap

\* the load of the bucket of q that starts at "start", 0 when there is none
LoadAt(q, start) ==
    IF \E k \in 1..Len(q) : q[k][1] = start
    THEN q[CHOOSE k \in 1..Len(q) : q[k][1] = start][2]
    ELSE 0

\* C24 (as claimed): after a first-of-burst reject on a saturated window with
\* penalty_distribution_factor = 1.0 and a positive entry penalty, every
\* bucket of the window, synthesized ones included, holds strictly more load
\* than before the reject.
C24_PenaltySpread ==
    (/\ LastRejected /\ ~last.pre[last.on].was_over
     /\ cfg[last.on].overstep_penalty > 0
     /\ cfg[last.on].penalty_distribution_factor = 100
     /\ last.pre[last.on].window_total >= cfg[last.on].maxload) =>
        \A k \in 1..Len(lim[last.on].queue) :
            lim[last.on].queue[k][2]
                > LoadAt(last.pre[last.on].queue, lim[last.on].queue[k][1])

\* the starts of the buckets of q
StartsOf(q) == {q[k][1] : k \in 1..Len(q)}

\* C25: with k = floor(num_max_buckets * factor), if k > 1 and
\* amount / k > 1 then, before the trim, the window holds the buckets it had
\* and the k buckets that start at last_start - i * step_period, each of
\* these k raised by amount / k (from 0 when it was missing) and no other
\* load changed; otherwise the newest bucket alone is raised by the amount
\* and no bucket is created.  window_total grows by the amount either way.
C25_PenaltySpreadShape ==
    last.op = "distribute_penalty" =>
        LET c == cfg[1]
            pre == last.pre[1]
            u == hist[1]
            amount == last.load
            k == (c.num_max_buckets * last.value) \div 100
            newest == pre.queue[Len(pre.queue)][1]
            targets == IF k > 1 /\ amount > k * LoadUnit
                       THEN {newest - i * c.step_period : i \in 0..(k - 1)}
                       ELSE {newest}
        IN  /\ u.window_total = pre.window_total + amount
            /\ StartsOf(u.queue) = StartsOf(pre.queue) \cup targets
            /\ Len(u.queue) = Cardinality(StartsOf(u.queue))
            /\ k > 1 /\ amount > k * LoadUnit => Cardinality(targets) = k
            /\ \A b \in StartsOf(u.queue) :
                 Cardinality(targets) * (LoadAt(u.queue, b) - LoadAt(pre.queue, b))
                     = IF b \in targets THEN amount ELSE 0

\* a spread over three buckets of a window that has a gap and too few
\* buckets: one bucket is synthesized in the middle, one at the left
C25_Witness ==
    /\ last.op = "distribute_penalty"
    /\ Len(last.pre[1].queue) = 2
    /\ last.pre[1].queue[1][1] = StartSec - 2
    /\ Len(hist[1].queue) = 3
    /\ last.load = 6 * LoadUnit
    /\ \A k \in 1..3 : hist[1].queue[k][2] >= 2 * LoadUnit

\* the window of the last operation as its penalty distribution left it,
\* before the trim to max_cap (the window after the advance is within
\* max_cap and its total is the sum of its loads, so the trim and the drift
\* correction that come first leave it alone)
BeforeTrim ==
    LET c == cfg[last.on]
        pre == last.pre[last.on]
    IN  IF last.op = "distribute"
        THEN DistributeUntrimmed(c, pre, last.load, 100)
        ELSE IF ~pre.was_over
        THEN DistributeUntrimmed(c, pre, c.overstep_penalty,
                                 c.penalty_distribution_factor)
        ELSE DistributeUntrimmed(c, pre,
                 (last.load * c.request_overhead_penalty_factor) \div 100,
                 c.request_overhead_penalty_distribution_factor)

\* C26: when a distribution leaves window_total above max_cap by an excess,
\* the trim lowers window_total and the sum of the loads by exactly that
\* excess, emptying buckets from the oldest on: every bucket older than the
\* one it stops at is at 0, that one is lowered but not below 0, the younger
\* ones are untouched, no bucket is removed; in every reachable state every
\* bucket load is >= 0.
C26_TrimFromOldest ==
    /\ \A i \in Lims : \A k \in 1..Len(lim[i].queue) : lim[i].queue[k][2] >= 0
    /\ (last.op = "distribute" \/ LastRejected) =>
         LET u == BeforeTrim
             post == lim[last.on]
             excess == u.window_total - cfg[last.on].max_cap
             n == Len(u.queue)
         IN  IF excess <= 0 THEN post.queue = u.queue
             ELSE /\ post.window_total = u.window_total - excess
                  /\ SumLoads(post.queue) = SumLoads(u.queue) - excess
                  /\ Len(post.queue) = n
                  /\ \A k \in 1..n : post.queue[k][1] = u.queue[k][1]
                  /\ \E j \in 1..n :
                       /\ \A k \in 1..(j - 1) : post.queue[k][2] = 0
                       /\ post.queue[j][2] < u.queue[j][2]
                       /\ \A k \in (j + 1)..n : post.queue[k][2] = u.queue[k][2]

\* a trim that emptied the oldest bucket and went on to the next one
C26_Witness ==
    /\ (last.op = "distribute" \/ LastRejected)
    /\ BeforeTrim.window_total > cfg[last.on].max_cap
    /\ Len(lim[last.on].queue) >= 2
    /\ BeforeTrim.queue[1][2] > 0
    /\ lim[last.on].queue[1][2] = 0
    /\ lim[last.on].queue[2][2] > 0
    /\ lim[last.on].queue[2][2] < BeforeTrim.queue[2][2]

\* C27: an accepted submit(load) raises the newest bucket and window_total by
\* exactly load, leaves every other bucket as the advance left it (none
\* removed, none lowered: the trim to max_cap has nothing to take), leaves
\* was_over false and returns no retry_in.
C27_AcceptAddsLoad ==
    (LastSubmit /\ last.accepted) =>
        LET pre == last.pre[last.on]
            post == lim[last.on]
            n == Len(pre.queue)
        IN  /\ post.window_total = pre.window_total + last.load
            /\ post.window_total <= cfg[last.on].max_cap
            /\ Len(post.queue) = n
            /\ post.queue[n] = <<pre.queue[n][1], pre.queue[n][2] + last.load>>
            /\ \A k \in 1..(n - 1) : post.queue[k] = pre.queue[k]
            /\ ~post.was_over
            /\ last.retry_in = None

\* a positive load accepted into a window of two buckets that ends a burst
C27_Witness ==
    /\ LastSubmit /\ last.accepted /\ last.load > 0
    /\ Len(lim[last.on].queue) >= 2
    /\ lim[last.on].queue[1][2] > 0
    /\ last.pre[last.on].was_over

\* C28: a rejected submit with load <= maxload on a limiter that computes the
\* TTA returns retry_in = b_start + period - t_now, where b is the first
\* bucket, from the oldest, at which the running sum of the loads reaches
\* to_free = load + (window_total - maxload) (which is the claim's formula in
\* both of its cases), the window taken after the reject's penalty and trim.
C28_RetryInFormula ==
    (LastRejected /\ last.load <= cfg[last.on].maxload
                  /\ cfg[last.on].compute_tta) =>
        LET c == cfg[last.on]
            q == lim[last.on].queue
            to_free == last.load + lim[last.on].window_total - c.maxload
        IN  /\ last.retry_in # None
            /\ \E j \in 1..Len(q) :
                 /\ SumLoads(SubSeq(q, 1, j)) >= to_free
                 /\ SumLoads(SubSeq(q, 1, j - 1)) < to_free
                 /\ last.retry_in[1]
                      = (q[j][1] + c.period) * TicksPerSec - last.time

\* a reject whose penalty took the window over maxload and whose walk passed
\* the oldest bucket
C28_Witness ==
    /\ LastRejected /\ last.load <= cfg[last.on].maxload
    /\ last.retry_in # None
    /\ lim[last.on].window_total > cfg[last.on].maxload
    /\ Len(lim[last.on].queue) >= 2
    /\ lim[last.on].queue[1][2] > 0
    /\ last.retry_in[1] = (lim[last.on].queue[2][1] + cfg[last.on].period)
                             * TicksPerSec - last.time

C30_RetryInLowerBound ==
    (last.op = "resubmit"
        /\ last.time < hist[1].time + hist[1].retry_in[1]) =>
            ~last.accepted

\* a resubmission one tick before t + r, after the clock has moved on
C30_Witness ==
    /\ last.op = "resubmit"
    /\ last.time > hist[1].time
    /\ last.time + 1 = hist[1].time + hist[1].retry_in[1]
    /\ last.load > 0
    /\ ~last.accepted

\* C31 (as claimed): on a limiter with no penalties, a resubmission of the
\* same load at time t + r, after a rejection at time t that came with
\* retry_in = r and with no other call on the limiter in between, is
\* accepted.
C31_RetryInSufficient ==
    (last.op = "resubmit" /\ NoPenalties(cfg[last.on])
        /\ last.time = hist[1].time + hist[1].retry_in[1]) =>
            last.accepted

\* C32: on every rejected submit with 0 <= load <= maxload the base of the
\* estimate, to_free = load + window_total - maxload (the window taken after
\* the reject's penalty and trim), is > 0, so the branch that answers the
\* default of 1 second is not taken: a retry_in returned is the expiry of a
\* bucket of the window.
C32_ToFreePositive ==
    (LastRejected /\ 0 <= last.load /\ last.load <= cfg[last.on].maxload) =>
        /\ last.load + lim[last.on].window_total - cfg[last.on].maxload > 0
        /\ cfg[last.on].compute_tta =>
             /\ last.retry_in # None
             /\ \E j \in 1..Len(lim[last.on].queue) :
                  last.retry_in[1] =
                      (lim[last.on].queue[j][1] + cfg[last.on].period)
                          * TicksPerSec - last.time

\* a rejection that is told to wait 1 second, by the walk: the bucket it
\* stops at expires in 1 second
C32_Witness ==
    /\ LastRejected /\ last.load > 0 /\ last.load <= cfg[last.on].maxload
    /\ last.retry_in = Some(TicksPerSec)
    /\ last.load + lim[last.on].window_total - cfg[last.on].maxload > 0

\* the loads submitted to the composite when a child may be asked for more
\* than its maxload: 10 exceeds the narrow child's maxload of 5
OversizeLoads == {5 * LoadUnit, 10 * LoadUnit}

OversizeSubmitOp == \E load \in OversizeLoads : CompositeSubmit(load)

\* a submit on one child alone, which fills it ahead of the other
OversizeChildOp == \E i \in Lims : Submit(i, 5 * LoadUnit)

NextOversize ==
    \/ OversizeSubmitOp
    \/ OversizeChildOp
    \/ Tick

SpecOversize == InitComposite /\ [][NextOversize]_vars

(***************************************************************************)
(* One caller of waiting(load) with timeout=None on a limiter without      *)
(* penalties, nobody else submitting.  Inside a call the clock moves only  *)
(* through time.sleep, by exactly the time slept; between calls it moves   *)
(* freely.                                                                 *)
(***************************************************************************)

SoloConfigs == {PlainParams, CoarseParams}

\* time.sleep(will_wait) returns with the clock exactly will_wait seconds on
SleepExact(t) ==
    /\ thr[t].pc = "sleep"
    /\ thr[t].wake <= EndTime
    /\ now' = thr[t].wake
    /\ thr' = [thr EXCEPT ![t].pc = "submit"]
    /\ UNCHANGED <<cfg, lim, last, hist, lock>>

InitSolo ==
    /\ \E p \in SoloConfigs : cfg = [i \in Lims |-> NewLimiter(p)]
    /\ lim = [i \in Lims |-> EmptyState]
    /\ now = StartTime
    /\ last = NoOp
    /\ hist = <<>>
    /\ lock = NoLock
    /\ thr = [t \in Callers |-> IdleCaller]

\* waiting(load) with timeout=None
WaitingAloneOp ==
    \E t \in Callers, load \in WrapLoads : Submitting(t, 1, load, TRUE, None)

SleepExactOp == \E t \in Callers : SleepExact(t)

\* the clock between two calls
IdleTick == (\A t \in Callers : thr[t].pc = "idle") /\ Tick

NextSolo == WaitingAloneOp \/ LoopTurnOp \/ SleepExactOp \/ BodyOp \/ IdleTick

SpecSolo == InitSolo /\ [][NextSolo]_vars

\* a caller inside _submitting keeps running: the submit is made, the sleep
\* returns, the body runs
SpecSoloFair ==
    SpecSolo /\ \A t \in Callers :
                   /\ WF_vars(LoopTurn(t))
                   /\ WF_vars(SleepExact(t))
                   /\ WF_vars(Body(t))

(***************************************************************************)
(* Two limiters of one configuration given the same submits at the same    *)
(* times; limiter 1 is also asked for its instant_load_factor in between.  *)
(***************************************************************************)

ObservedConfigs == {PlainParams, PenaltyParams}

ObservedLoads == {5 * LoadUnit, 10 * LoadUnit}

\* submit(load) on limiter 1 and the same submit on limiter 2
PairedSubmit(load) ==
    \E r \in {[i \in Lims |-> Submitted(cfg[i], lim[i], load, now)]} :
        /\ lim' = [i \in Lims |-> r[i].state]
        /\ last' = [NoOp EXCEPT !.op = "submit", !.on = 1, !.time = now,
                                !.load = load,
                                !.accepted = r[1].ok,
                                !.retry_in = r[1].retry_in,
                                !.pre = [i \in Lims |-> r[i].pre],
                                !.probe = [i \in Lims |-> r[i].ok],
                                !.retries = [i \in Lims |-> r[i].retry_in]]
        /\ UNCHANGED <<cfg, now, hist, conc>>

\* instant_load_factor() on limiter 1 alone, its value dropped: last keeps
\* describing the last pair of submits
ExtraLoadFactor ==
    /\ lim' = [lim EXCEPT ![1] = RotateWindowToCurrentTime(cfg[1], lim[1], now)]
    /\ UNCHANGED <<cfg, now, last, hist, conc>>

InitObserved ==
    /\ \E p \in ObservedConfigs : cfg = [i \in Lims |-> NewLimiter(p)]
    /\ lim = [i \in Lims |-> EmptyState]
    /\ now = StartTime
    /\ last = NoOp
    /\ hist = <<>>
    /\ lock = NoLock
    /\ thr = [t \in Threads |-> IdleThread]

PairedSubmitOp == \E load \in ObservedLoads : PairedSubmit(load)

NextObserved == PairedSubmitOp \/ ExtraLoadFactor \/ Tick

SpecObserved == InitObserved /\ [][NextObserved]_vars

\* C33: a rejected composite submit returns the largest retry_in among the
\* rejections of the children whose probe failed on their advanced windows,
\* and None exactly when none of those rejections carries a retry_in; the
\* children whose probe passed count for nothing.
C33_CompositeRetryIsMax ==
    (last.op = "composite_submit" /\ ~last.accepted) =>
        LET failing == {i \in Lims :
                          last.pre[i].window_total + last.load > cfg[i].maxload}
            waits == {w \in {SubmitReject(cfg[i], last.pre[i], last.load,
                                          last.time).retry_in : i \in failing} :
                        w # None}
        IN  /\ failing # {}
            /\ waits = {} => last.retry_in = None
            /\ waits # {} =>
                  /\ last.retry_in \in waits
                  /\ \A w \in waits : w[1] <= last.retry_in[1]

\* both children fail and the first one's wait is the longer one
C33_Witness ==
    /\ last.op = "composite_submit" /\ ~last.accepted
    /\ ~last.probe[1] /\ ~last.probe[2]
    /\ last.retries[1] # None /\ last.retries[2] # None
    /\ last.retries[1][1] > last.retries[2][1]
    /\ last.retry_in = last.retries[1]

\* a failing child without a retry_in beside a failing one with one: the
\* composite returns the latter's
C33_WitnessOneNone ==
    /\ last.op = "composite_submit" /\ ~last.accepted
    /\ ~last.probe[1] /\ ~last.probe[2]
    /\ last.retries[2] = None /\ last.retries[1] # None
    /\ last.retry_in = last.retries[1]

\* a failing child without a retry_in beside a passing one: the composite
\* returns None
C33_WitnessNone ==
    /\ last.op = "composite_submit" /\ ~last.accepted
    /\ last.retry_in = None /\ \E i \in Lims : last.probe[i]

\* the caller t has just had a submit of its own rejected in a waiting call
\* with a timeout, and the rejection carries a retry_in
RejectedWaiting(t) ==
    /\ thr[t].on # 0 /\ thr[t].wait /\ thr[t].timeout # None
    /\ thr[t].pc \in {"idle", "sleep"}
    /\ last.op = "submit" /\ ~last.accepted /\ last.retry_in # None

\* elapsed_time + ceil(retry_in) >= timeout at the rejected submit, in ticks
OverBudget(t) ==
    (last.time - thr[t].start) + WillWait(last) * TicksPerSec
        >= thr[t].timeout[1] * TicksPerSec

\* C34 (as claimed): in a waiting call with a timeout, a rejected submit with
\* elapsed_time + ceil(retry_in) >= timeout has raised TimeoutError and no
\* sleep has begun; a sleep that has begun ends ceil(retry_in) seconds after
\* the rejected submit and before the timeout; and the submit after a sleep
\* is not made before the sleep's end.
C34_TimeoutInsteadOfSleep ==
    \A t \in Callers :
        /\ RejectedWaiting(t) =>
              /\ OverBudget(t) =>
                    thr[t].pc = "idle" /\ thr[t].exc = "TimeoutError"
              /\ thr[t].pc = "sleep" =>
                    /\ thr[t].wake = last.time + WillWait(last) * TicksPerSec
                    /\ thr[t].wake - thr[t].start
                          < thr[t].timeout[1] * TicksPerSec
        /\ (thr[t].pc = "submit" /\ thr[t].wake # 0) => now >= thr[t].wake

\* the same with the rejections that can be waited for only (retry_in > 0)
C34_TimeoutWhenSleepable ==
    \A t \in Callers :
        /\ (RejectedWaiting(t) /\ last.retry_in[1] > 0) =>
              /\ OverBudget(t) =>
                    thr[t].pc = "idle" /\ thr[t].exc = "TimeoutError"
              /\ thr[t].pc = "sleep" =>
                    /\ thr[t].wake = last.time + WillWait(last) * TicksPerSec
                    /\ thr[t].wake - thr[t].start
                          < thr[t].timeout[1] * TicksPerSec
        /\ (thr[t].pc = "submit" /\ thr[t].wake # 0) => now >= thr[t].wake

\* C35: on a limiter with penalty_factor = 0 and
\* request_overhead_penalty_factor = 0 on which distribute() is never
\* called, window_total <= maxload in every reachable state, whatever the
\* submits (accepted or rejected) and the clock did.
C35_TotalWithinMaxload ==
    \A i \in Lims :
        NoPenalties(cfg[i]) => lim[i].window_total <= cfg[i].maxload

\* the window is full, a rejected submit has followed and the clock has
\* moved on since
C35_Witness ==
    /\ NoPenalties(cfg[1]) /\ lim[1].window_total = cfg[1].maxload
    /\ LastRejected /\ last.load > 0 /\ now > last.time
    /\ Len(lim[1].queue) >= 2

\* C36 (as claimed): of two limiters given the same submits at the same
\* times, the one that is also asked for its instant_load_factor at times
\* in between answers every submit as the other does: same outcome, same
\* retry_in.
C36_LoadFactorReadOnly ==
    last.op = "submit" =>
        /\ last.probe[1] = last.probe[2]
        /\ last.retries[1] = last.retries[2]

\* C37: after every operation executed at time t, every bucket still in the
\* window started after t - period - step_period; a load accepted at t0 sits
\* in the bucket of t0, which started at or before t0, so no load accepted
\* at t0 <= t - period - step_period is counted any more.
C37_BoundedRetention ==
    last.op \in {"submit", "instant_load_factor", "distribute"} =>
        \A k \in 1..Len(lim[last.on].queue) :
            lim[last.on].queue[k][1] * TicksPerSec
                > last.time - (cfg[last.on].period + cfg[last.on].step_period)
                                  * TicksPerSec

\* a rejected submit has counted a load in a bucket that started more than
\* one period before it, within the bound
C37_Witness ==
    /\ LastRejected /\ NoPenalties(cfg[last.on])
    /\ lim[last.on].queue[1][2] > 0
    /\ lim[last.on].queue[1][1] * TicksPerSec
          < last.time - cfg[last.on].period * TicksPerSec
    /\ lim[last.on].queue[1][2] + last.load > cfg[last.on].maxload

\* C38: with no penalty configured and no distribute(), the total a probe
\* at time t compares (the window advanced to t) counts every load accepted
\* at a time t0 with t0 <= t <= t0 + period - step_period: it is at least
\* the sum of the loads accepted since t - period + step_period, the load
\* this very submit entered after its probe left out.
C38_NoEarlyForgetting ==
    LastSubmit =>
        last.pre[1].window_total
            >= AcceptedSince(hist,
                   last.time - (cfg[1].period - cfg[1].step_period) * TicksPerSec)
               - (IF last.accepted THEN last.load ELSE 0)

\* a probe exactly period - step_period after a load was accepted, in a
\* later bucket, rejects on account of that load
C38_Witness ==
    /\ LastRejected /\ cfg[1].period > cfg[1].step_period
    /\ last.load <= cfg[1].maxload
    /\ \E k \in 1..Len(hist) :
          /\ hist[k][1] = last.time
                            - (cfg[1].period - cfg[1].step_period) * TicksPerSec
          /\ hist[k][2] + last.load > cfg[1].maxload
          /\ last.pre[1].window_total = hist[k][2]

\* C39: a rejected submit with load <= maxload on a limiter that computes
\* the TTA always comes with a retry_in: the loads in the window add up to
\* at least to_free = load + window_total - maxload, so the walk from the
\* oldest bucket reaches to_free before the window is exhausted.
C39_RetryInNeverNone ==
    (LastRejected /\ last.load <= cfg[last.on].maxload
                  /\ cfg[last.on].compute_tta) =>
        /\ last.retry_in # None
        /\ SumLoads(lim[last.on].queue)
              >= last.load + lim[last.on].window_total - cfg[last.on].maxload

\* a rejected submit of maxload itself: to_free is the whole window, and the
\* walk ends on the newest of several buckets
C39_Witness ==
    /\ LastRejected /\ cfg[last.on].compute_tta
    /\ last.load = cfg[last.on].maxload
    /\ Len(lim[last.on].queue) >= 2
    /\ NewestLoad(lim[last.on]) > 0
    /\ SumLoads(lim[last.on].queue) = lim[last.on].window_total
    /\ last.retry_in = Some((lim[last.on].queue[Len(lim[last.on].queue)][1]
                                + cfg[last.on].period) * TicksPerSec - last.time)

\* C40 (as claimed): a single caller of waiting(load) with load <= maxload
\* and timeout=None, on a limiter without penalties and with the clock moved
\* on by exactly the time slept, never gets LoadLimitExceeded, and every
\* call ends with its submit accepted and its body run.
C40_WaitingSucceeds ==
    /\ [](\A t \in Callers : thr[t].exc # "LoadLimitExceeded")
    /\ \A t \in Callers : (thr[t].pc = "submit") ~> thr[t].ran

\* the safety half of C40 alone
C40_NeverLoadLimitExceeded ==
    \A t \in Callers : thr[t].exc # "LoadLimitExceeded"

====
